---- MODULE Spec2Model ----
(***************************************************************************)
(* WebSketch IR: the validator / strict parser (errors.ts), the hashing    *)
(* and similarity functions (hash.ts, text.ts) and the diff engine         *)
(* (diff.ts), as state machines over bounded inputs.                       *)
(***************************************************************************)
EXTENDS Integers, Sequences, FiniteSets, TLC

(***************************************************************************)
(* JSON values, as JSON.parse builds them.  An object is the sequence of   *)
(* its entries in insertion order; a key that is absent reads as           *)
(* undefined.                                                              *)
(***************************************************************************)
Undefined == [t |-> "undefined"]
JNull == [t |-> "null"]
JBool(b) == [t |-> "boolean", b |-> b]
JNum(n) == [t |-> "number", n |-> n]
JStr(s) == [t |-> "string", s |-> s]
JArr(a) == [t |-> "array", a |-> a]
JObj(o) == [t |-> "object", o |-> o]
E(k, v) == [k |-> k, v |-> v]

MaxOf(S) == CHOOSE m \in S : \A n \in S : n <= m
MinOf(S) == CHOOSE m \in S : \A n \in S : m <= n

\* obj.key in JavaScript, for a value that is neither null nor undefined.
Get(v, key) ==
  IF v.t = "object"
    THEN LET at == {i \in 1..Len(v.o) : v.o[i].k = key}
         IN IF at = {} THEN Undefined ELSE v.o[MaxOf(at)].v
    ELSE Undefined

\* typeof value
JsTypeof(v) == IF v.t \in {"null", "array", "object"} THEN "object" ELSE v.t

\* typeOf(value) of errors.ts
TypeOf(v) ==
  IF v.t = "null" THEN "null"
  ELSE IF v.t = "array" THEN "array"
  ELSE JsTypeof(v)

(***************************************************************************)
(* JSON.stringify and JSON.parse on these values.  Numbers are integers    *)
(* and strings hold no character that JSON writes escaped.                 *)
(***************************************************************************)
RECURSIVE JoinStr(_, _)
JoinStr(parts, sep) ==
  IF Len(parts) = 0 THEN ""
  ELSE IF Len(parts) = 1 THEN parts[1]
  ELSE parts[1] \o sep \o JoinStr(Tail(parts), sep)

Quote(s) == "\"" \o s \o "\""

RECURSIVE JsonStringifyTruthy(_)
JsonStringifyTruthy(v) ==
  CASE v.t = "null" -> "null"
    [] v.t = "boolean" -> "true"
    [] v.t = "number" -> ToString(v.n)
    [] v.t = "string" -> Quote(v.s)
    [] v.t = "array" ->
         "[" \o JoinStr([i \in 1..Len(v.a) |-> JsonStringifyTruthy(v.a[i])], ",") \o "]"
    [] v.t = "object" ->
         "{" \o JoinStr([i \in 1..Len(v.o) |->
                          Quote(v.o[i].k) \o ":" \o JsonStringifyTruthy(v.o[i].v)], ",") \o "}"

RECURSIVE JsonStringify(_)
JsonStringify(v) ==
  CASE v.t = "null" -> "null"
    [] v.t = "boolean" -> IF v.b THEN "true" ELSE "false"
    [] v.t = "number" -> ToString(v.n)
    [] v.t = "string" -> Quote(v.s)
    [] v.t = "array" ->
         "[" \o JoinStr([i \in 1..Len(v.a) |-> JsonStringify(v.a[i])], ",") \o "]"
    [] v.t = "object" ->
         "{" \o JoinStr([i \in 1..Len(v.o) |->
                          Quote(v.o[i].k) \o ":" \o JsonStringify(v.o[i].v)], ",") \o "}"

Ch(s, i) == IF i >= 1 /\ i <= Len(s) THEN SubSeq(s, i, i) ELSE ""
IsWs(c) == c \in {" ", "\t", "\n", "\r"}
Digits == <<"0", "1", "2", "3", "4", "5", "6", "7", "8", "9">>
IsDigit(c) == \E d \in 1..10 : Digits[d] = c
DigitVal(c) == (CHOOSE d \in 1..10 : Digits[d] = c) - 1

\* The first position at or after i that holds no whitespace (Len(s)+1 at the end).
RECURSIVE SkipWs(_, _)
SkipWs(s, i) == IF IsWs(Ch(s, i)) THEN SkipWs(s, i + 1) ELSE i

\* The first position at or after i that holds no digit.
RECURSIVE SkipDigits(_, _)
SkipDigits(s, i) == IF IsDigit(Ch(s, i)) THEN SkipDigits(s, i + 1) ELSE i

RECURSIVE DigitsVal(_, _, _)
DigitsVal(s, i, j) ==
  IF i > j THEN 0 ELSE DigitsVal(s, i, j - 1) * 10 + DigitVal(Ch(s, j))

ParseFail == [ok |-> FALSE]
ParseOk(v, p) == [ok |-> TRUE, v |-> v, p |-> p]

\* The end of the string literal whose body starts at j: the position of its
\* closing quote, or 0 when a character that needs an escape, or the end of
\* the text, comes first.
RECURSIVE StringEnd(_, _)
StringEnd(s, j) ==
  IF j > Len(s) \/ Ch(s, j) \in {"\\", "\n", "\t", "\r"} THEN 0
  ELSE IF Ch(s, j) = "\"" THEN j
  ELSE StringEnd(s, j + 1)

\* A string literal whose opening quote is at i.
ParseString(s, i) ==
  LET j == StringEnd(s, i + 1)
  IN IF j = 0 THEN ParseFail ELSE ParseOk(SubSeq(s, i + 1, j - 1), j + 1)

\* An integer literal starting at i.
ParseNumber(s, i) ==
  LET neg == Ch(s, i) = "-"
      d1 == IF neg THEN i + 1 ELSE i
      d2 == SkipDigits(s, d1)
  IN IF d2 = d1 THEN ParseFail
     ELSE IF Ch(s, d1) = "0" /\ d2 > d1 + 1 THEN ParseFail
     ELSE IF Ch(s, d2) \in {".", "e", "E"} THEN ParseFail
     ELSE ParseOk(JNum(IF neg THEN 0 - DigitsVal(s, d1, d2 - 1)
                              ELSE DigitsVal(s, d1, d2 - 1)), d2)

RECURSIVE ParseValue(_, _), ParseElems(_, _, _), ParseMembers(_, _, _)

\* The elements of an array after "[" or ",": i is where the next element starts.
ParseElems(s, i, acc) ==
  LET r == ParseValue(s, i)
  IN IF ~r.ok THEN ParseFail
     ELSE LET p == SkipWs(s, r.p)
          IN IF Ch(s, p) = "," THEN ParseElems(s, p + 1, Append(acc, r.v))
             ELSE IF Ch(s, p) = "]" THEN ParseOk(JArr(Append(acc, r.v)), p + 1)
             ELSE ParseFail

\* The members of an object after "{" or ",": i is where the next key starts.
ParseMembers(s, i, acc) ==
  LET k == SkipWs(s, i)
  IN IF Ch(s, k) # "\"" THEN ParseFail
     ELSE LET key == ParseString(s, k)
          IN IF ~key.ok THEN ParseFail
             ELSE LET c == SkipWs(s, key.p)
                  IN IF Ch(s, c) # ":" THEN ParseFail
                     ELSE LET r == ParseValue(s, c + 1)
                          IN IF ~r.ok THEN ParseFail
                             ELSE LET p == SkipWs(s, r.p)
                                      now == Append(acc, E(key.v, r.v))
                                  IN IF Ch(s, p) = "," THEN ParseMembers(s, p + 1, now)
                                     ELSE IF Ch(s, p) = "}" THEN ParseOk(JObj(now), p + 1)
                                     ELSE ParseFail

ParseValue(s, i) ==
  LET p == SkipWs(s, i)
      c == Ch(s, p)
  IN CASE c = "{" ->
            LET q == SkipWs(s, p + 1)
            IN IF Ch(s, q) = "}" THEN ParseOk(JObj(<<>>), q + 1)
               ELSE ParseMembers(s, p + 1, <<>>)
       [] c = "[" ->
            LET q == SkipWs(s, p + 1)
            IN IF Ch(s, q) = "]" THEN ParseOk(JArr(<<>>), q + 1)
               ELSE ParseElems(s, p + 1, <<>>)
       [] c = "\"" ->
            LET r == ParseString(s, p)
            IN IF r.ok THEN ParseOk(JStr(r.v), r.p) ELSE ParseFail
       [] c = "t" ->
            IF SubSeq(s, p, MinOf({p + 3, Len(s)})) = "true"
              THEN ParseOk(JBool(TRUE), p + 4) ELSE ParseFail
       [] c = "f" ->
            IF SubSeq(s, p, MinOf({p + 4, Len(s)})) = "false"
              THEN ParseOk(JBool(FALSE), p + 5) ELSE ParseFail
       [] c = "n" ->
            IF SubSeq(s, p, MinOf({p + 3, Len(s)})) = "null"
              THEN ParseOk(JNull, p + 4) ELSE ParseFail
       [] c = "-" \/ IsDigit(c) -> ParseNumber(s, p)
       [] OTHER -> ParseFail

\* JSON.parse(text): ok with the value, or not ok (a SyntaxError).
JsonParse(s) ==
  LET r == ParseValue(s, 1)
  IN IF r.ok /\ SkipWs(s, r.p) = Len(s) + 1 THEN [ok |-> TRUE, v |-> r.v]
     ELSE ParseFail

(***************************************************************************)
(* errors.ts: limits, roles, issues.                                       *)
(***************************************************************************)
DefaultMaxNodes == 10000
DefaultMaxDepth == 50
DefaultMaxStringLength == 10000
IssueCap == 100

LimitFields == {"maxNodes", "maxDepth", "maxStringLength"}

DEFAULT_LIMITS ==
  [f \in LimitFields |->
     IF f = "maxNodes" THEN DefaultMaxNodes
     ELSE IF f = "maxDepth" THEN DefaultMaxDepth
     ELSE DefaultMaxStringLength]

\* { ...DEFAULT_LIMITS, ...limits }: arg maps the fields the caller gave.
ResolveLimits(arg) ==
  [f \in LimitFields |-> IF f \in DOMAIN arg THEN arg[f] ELSE DEFAULT_LIMITS[f]]

VALID_ROLES ==
  <<"PAGE", "NAV", "HEADER", "FOOTER", "SECTION", "CARD", "LIST", "TABLE",
    "MODAL", "TOAST", "DROPDOWN",
    "FORM", "INPUT", "BUTTON", "LINK", "CHECKBOX", "RADIO", "ICON",
    "IMAGE", "TEXT",
    "PAGINATION",
    "UNKNOWN">>

HasRole(r) == \E i \in 1..Len(VALID_ROLES) : VALID_ROLES[i] = r

Issue(path, expected, received, message) ==
  [path |-> path, expected |-> expected, received |-> received, message |-> message]

NotPlainObjectNullPasses(v) == JsTypeof(v) # "object" \/ v.t = "array"

\* typeof v !== "object" || v === null || Array.isArray(v)
NotPlainObject(v) == JsTypeof(v) # "object" \/ v.t = "null" \/ v.t = "array"

\* A property read v.key raises a TypeError on null and undefined.
ReadThrows(v) == v.t \in {"null", "undefined"}

(***************************************************************************)
(* validateNode: the checks of one invocation, up to its loop over the     *)
(* children.                                                               *)
(***************************************************************************)
OverNodesLate(count, limits) == count > limits.maxNodes + 1

\* state.nodeCount > limits.maxNodes, count being the incremented counter
OverNodes(count, limits) == count > limits.maxNodes

\* depth > limits.maxDepth
TooDeep(depth, limits) == depth > limits.maxDepth

ChildPathNoIndex(path, i) == path \o ".children"

\* `${path}.children[${i}]`
ChildPath(path, i) == path \o ".children[" \o ToString(i) \o "]"

NodeCountIssue(path, count, limits) ==
  Issue(path, "<= " \o ToString(limits.maxNodes) \o " nodes", ToString(count) \o "+",
        "Node count exceeds maxNodes limit (" \o ToString(limits.maxNodes) \o ")")

DepthIssue(path, depth, limits) ==
  Issue(path, "depth <= " \o ToString(limits.maxDepth), "depth " \o ToString(depth),
        "Tree depth exceeds maxDepth limit (" \o ToString(limits.maxDepth) \o ")")

RoleIssues(node, path) ==
  LET role == Get(node, "role")
  IN IF JsTypeof(role) # "string"
       THEN <<Issue(path \o ".role", "string (UIRole)", TypeOf(role),
                    "Node role is required and must be a string")>>
     ELSE IF ~HasRole(role.s)
       THEN <<Issue(path \o ".role", "one of [" \o JoinStr(VALID_ROLES, ", ") \o "]",
                    Quote(role.s), "Invalid UI role: " \o Quote(role.s))>>
     ELSE <<>>

BboxElemIssues(bbox, path, i) ==
  IF JsTypeof(bbox.a[i + 1]) # "number"
    THEN <<Issue(path \o ".bbox[" \o ToString(i) \o "]", "number", TypeOf(bbox.a[i + 1]),
                 "bbox element " \o ToString(i) \o " must be a number")>>
    ELSE <<>>

BboxIssues(node, path) ==
  LET bbox == Get(node, "bbox")
  IN IF bbox.t # "array"
       THEN <<Issue(path \o ".bbox", "array of 4 numbers", TypeOf(bbox),
                    "Node bbox is required and must be an array")>>
     ELSE IF Len(bbox.a) # 4
       THEN <<Issue(path \o ".bbox", "array of 4 numbers",
                    "array of " \o ToString(Len(bbox.a)),
                    "Node bbox must have exactly 4 elements")>>
     ELSE BboxElemIssues(bbox, path, 0) \o BboxElemIssues(bbox, path, 1)
          \o BboxElemIssues(bbox, path, 2) \o BboxElemIssues(bbox, path, 3)

FlagIssues(node, path) ==
  LET interactive == Get(node, "interactive")
      visible == Get(node, "visible")
      id == Get(node, "id")
  IN (IF JsTypeof(interactive) # "boolean"
        THEN <<Issue(path \o ".interactive", "boolean", TypeOf(interactive),
                     "Node interactive is required and must be a boolean")>>
        ELSE <<>>)
     \o (IF JsTypeof(visible) # "boolean"
           THEN <<Issue(path \o ".visible", "boolean", TypeOf(visible),
                        "Node visible is required and must be a boolean")>>
           ELSE <<>>)
     \o (IF JsTypeof(id) # "string"
           THEN <<Issue(path \o ".id", "string", TypeOf(id),
                        "Node id is required and must be a string")>>
           ELSE <<>>)

\* A validator that admits in a TextSignal the keys kind, hash and len only.
TextIssuesClosed(node, path) ==
  LET text == Get(node, "text")
  IN IF text.t = "undefined" THEN <<>>
     ELSE IF NotPlainObject(text)
       THEN <<Issue(path \o ".text", "TextSignal object", TypeOf(text),
                    "Node text must be a TextSignal object")>>
     ELSE IF JsTypeof(Get(text, "kind")) # "string"
             \/ \E i \in 1..Len(text.o) : text.o[i].k \notin {"kind", "hash", "len"}
       THEN <<Issue(path \o ".text.kind", "string (TextKind)", TypeOf(Get(text, "kind")),
                    "TextSignal kind is required")>>
     ELSE <<>>

TextIssues(node, path) ==
  LET text == Get(node, "text")
  IN IF text.t = "undefined" THEN <<>>
     ELSE IF NotPlainObject(text)
       THEN <<Issue(path \o ".text", "TextSignal object", TypeOf(text),
                    "Node text must be a TextSignal object")>>
     ELSE IF JsTypeof(Get(text, "kind")) # "string"
       THEN <<Issue(path \o ".text.kind", "string (TextKind)", TypeOf(Get(text, "kind")),
                    "TextSignal kind is required")>>
     ELSE <<>>

ChildrenIssues(node, path) ==
  LET children == Get(node, "children")
  IN IF children.t # "undefined" /\ children.t # "array"
       THEN <<Issue(path \o ".children", "array", TypeOf(children),
                    "Node children must be an array")>>
       ELSE <<>>

\* One invocation validateNode(data, path, depth, state, limits, issues) with
\* state.nodeCount = count on entry: the issues it pushes itself, the children
\* it goes on to loop over, and whether a property read raised.
ValidateNode(data, path, depth, count, limits) ==
  IF OverNodes(count + 1, limits)
    THEN [issues |-> <<NodeCountIssue(path, count + 1, limits)>>, kids |-> <<>>, threw |-> FALSE]
  ELSE IF TooDeep(depth, limits)
    THEN [issues |-> <<DepthIssue(path, depth, limits)>>, kids |-> <<>>, threw |-> FALSE]
  ELSE IF NotPlainObject(data)
    THEN [issues |-> <<Issue(path, "object", TypeOf(data), "Node must be an object")>>,
          kids |-> <<>>, threw |-> FALSE]
  ELSE IF ReadThrows(data)
    THEN [issues |-> <<>>, kids |-> <<>>, threw |-> TRUE]
  ELSE LET text == Get(data, "text")
           children == Get(data, "children")
       IN [issues |-> RoleIssues(data, path) \o BboxIssues(data, path)
                      \o FlagIssues(data, path) \o TextIssues(data, path)
                      \o ChildrenIssues(data, path),
           kids |-> IF children.t = "array" THEN children.a ELSE <<>>,
           threw |-> text.t # "undefined" /\ ~NotPlainObject(text) /\ ReadThrows(text)]

(***************************************************************************)
(* validateCapture: the top-level checks, before the walk of the tree.     *)
(***************************************************************************)
VersionIssuesUnquoted(obj) ==
  LET version == Get(obj, "version")
  IN IF JsTypeof(version) # "string"
       THEN <<Issue("version", "\"0.1\"", TypeOf(version), "Capture version is required")>>
     ELSE IF version.s # "0.1"
       THEN <<Issue("version", "\"0.1\"", version.s, "Unsupported version: " \o version.s)>>
     ELSE <<>>

VersionIssues(obj) ==
  LET version == Get(obj, "version")
  IN IF JsTypeof(version) # "string"
       THEN <<Issue("version", "\"0.1\"", TypeOf(version), "Capture version is required")>>
     ELSE IF version.s # "0.1"
       THEN <<Issue("version", "\"0.1\"", Quote(version.s),
                    "Unsupported version: " \o Quote(version.s))>>
     ELSE <<>>

FieldIssue(obj, prefix, key, type, message) ==
  IF JsTypeof(Get(obj, key)) # type
    THEN <<Issue(prefix \o key, type, TypeOf(Get(obj, key)), message)>>
    ELSE <<>>

ViewportIssues(obj) ==
  LET vp == Get(obj, "viewport")
  IN IF NotPlainObject(vp)
       THEN <<Issue("viewport", "ViewportMeta object", TypeOf(vp),
                    "Capture viewport is required")>>
       ELSE FieldIssue(vp, "viewport.", "w_px", "number", "Viewport w_px is required")
            \o FieldIssue(vp, "viewport.", "h_px", "number", "Viewport h_px is required")
            \o FieldIssue(vp, "viewport.", "aspect", "number", "Viewport aspect is required")

CompilerIssues(obj) ==
  LET comp == Get(obj, "compiler")
  IN IF NotPlainObject(comp)
       THEN <<Issue("compiler", "CompilerMeta object", TypeOf(comp),
                    "Capture compiler is required")>>
       ELSE FieldIssue(comp, "compiler.", "name", "string", "Compiler name is required")
            \o FieldIssue(comp, "compiler.", "version", "string", "Compiler version is required")
            \o FieldIssue(comp, "compiler.", "options_hash", "string",
                          "Compiler options_hash is required")

\* validateCapture up to the call validateNode(obj.root, "root", 0, ...): the
\* issues so far, whether the root is walked, whether a property read raised.
ValidateTop(data) ==
  IF NotPlainObject(data)
    THEN [issues |-> <<Issue("", "object", TypeOf(data), "Capture must be an object")>>,
          walk |-> FALSE, threw |-> FALSE]
  ELSE IF ReadThrows(data)
    THEN [issues |-> <<>>, walk |-> FALSE, threw |-> TRUE]
  ELSE LET root == Get(data, "root")
           vp == Get(data, "viewport")
           comp == Get(data, "compiler")
           head == VersionIssues(data)
                   \o FieldIssue(data, "", "url", "string", "Capture url is required")
                   \o FieldIssue(data, "", "timestamp_ms", "number",
                                 "Capture timestamp_ms is required")
                   \o ViewportIssues(data) \o CompilerIssues(data)
       IN [issues |-> IF root.t \in {"undefined", "null"}
                        THEN Append(head, Issue("root", "UINode object", TypeOf(root),
                                                "Capture root node is required"))
                        ELSE head,
           walk |-> root.t \notin {"undefined", "null"},
           threw |-> (~NotPlainObject(vp) /\ ReadThrows(vp))
                     \/ (~NotPlainObject(comp) /\ ReadThrows(comp))]

(***************************************************************************)
(* parseCapture: the classification of the issues (Version > Limit >       *)
(* General), or the parsed value when there is none.                       *)
(***************************************************************************)
\* message.includes(part)
Includes(s, part) ==
  \E i \in 1..(Len(s) - Len(part) + 1) : SubSeq(s, i, i + Len(part) - 1) = part

\* issues.find((i) => i.path === "version" && i.received !== "undefined")
VersionIssueAt(issues) ==
  {i \in 1..Len(issues) : issues[i].path = "version" /\ issues[i].received # "undefined"}

\* issues.find((i) => i.message.includes("exceeds maxNodes") || ...("exceeds maxDepth"))
LimitIssueAt(issues) ==
  {i \in 1..Len(issues) : Includes(issues[i].message, "exceeds maxNodes")
                          \/ Includes(issues[i].message, "exceeds maxDepth")}

VersionError(versionIssue) ==
  [kind |-> "error", code |-> "WS_UNSUPPORTED_VERSION",
   message |-> "Unsupported capture version: " \o versionIssue.received,
   expected |-> "\"0.1\"", received |-> versionIssue.received]

LimitError(limitIssue) ==
  [kind |-> "error", code |-> "WS_LIMIT_EXCEEDED", message |-> limitIssue.message,
   path |-> limitIssue.path, expected |-> limitIssue.expected,
   received |-> limitIssue.received]

InvalidCaptureError(issues) ==
  [kind |-> "error", code |-> "WS_INVALID_CAPTURE",
   message |-> "Invalid capture: " \o ToString(Len(issues)) \o " validation issue"
               \o (IF Len(issues) > 1 THEN "s" ELSE "") \o " found",
   details |-> JoinStr([i \in 1..MinOf({5, Len(issues)}) |->
                          issues[i].path \o ": " \o issues[i].message], "; "),
   issues |-> issues]

InvalidJsonError ==
  [kind |-> "error", code |-> "WS_INVALID_JSON", message |-> "Failed to parse JSON"]

ClassifyLimitFirst(issues, data) ==
  IF Len(issues) > 0
    THEN IF LimitIssueAt(issues) # {}
           THEN LimitError(issues[MinOf(LimitIssueAt(issues))])
         ELSE IF VersionIssueAt(issues) # {}
                 /\ issues[MinOf(VersionIssueAt(issues))].received # "\"0.1\""
           THEN VersionError(issues[MinOf(VersionIssueAt(issues))])
         ELSE InvalidCaptureError(issues)
    ELSE [kind |-> "ok", value |-> data]

Classify(issues, data) ==
  IF Len(issues) > 0
    THEN IF VersionIssueAt(issues) # {}
              /\ issues[MinOf(VersionIssueAt(issues))].received # "\"0.1\""
           THEN VersionError(issues[MinOf(VersionIssueAt(issues))])
         ELSE IF LimitIssueAt(issues) # {}
           THEN LimitError(issues[MinOf(LimitIssueAt(issues))])
         ELSE InvalidCaptureError(issues)
    ELSE [kind |-> "ok", value |-> data]

(***************************************************************************)
(* The inputs: captures built like the fixtures of tests/errors.test.ts,   *)
(* each with its fields present, absent or of another type.                *)
(***************************************************************************)
MaxWide == 3
MaxChain == 3
SmallMaxNodes == 3
SmallMaxDepth == 2
CapLeaves == 10

UnitBox == JArr(<<JNum(0), JNum(0), JNum(1), JNum(1)>>)
ShortText == JObj(<<E("kind", JStr("short")), E("hash", JStr("h1"))>>)

NodeOf(id, role, bbox, interactive, visible, more) ==
  JObj(SelectSeq(<<E("id", id), E("role", role), E("bbox", bbox),
                   E("interactive", interactive), E("visible", visible)>>,
                 LAMBDA e : e.v.t # "undefined") \o more)

GoodNode(role, more) == NodeOf(JStr(""), JStr(role), UnitBox, JBool(FALSE), JBool(TRUE), more)
WithRole(role) == NodeOf(JStr(""), role, UnitBox, JBool(FALSE), JBool(TRUE), <<>>)
WithBbox(bbox) == NodeOf(JStr(""), JStr("CARD"), bbox, JBool(FALSE), JBool(TRUE), <<>>)
WithKids(role, kids) == GoodNode(role, <<E("children", JArr(kids))>>)

\* Every check of validateNode fails: nine issues.
BadEntries ==
  <<E("role", JNum(1)), E("bbox", JArr(<<JNull, JStr("a"), JBool(TRUE), JArr(<<>>)>>)),
    E("text", JNum(3))>>
BadNode == JObj(BadEntries)
BadWithKids(kids) == JObj(BadEntries \o <<E("children", JArr(kids))>>)

OkLeaf == GoodNode("BUTTON", <<>>)
BogusLeaf == WithRole(JStr("BOGUS"))

LeafNodes ==
  { OkLeaf, BogusLeaf, BadNode,
    GoodNode("TEXT", <<E("text", ShortText)>>),
    GoodNode("TEXT", <<E("text", JObj(<<E("len", JNum(5))>>))>>),
    GoodNode("TEXT", <<E("text", JStr("abc"))>>),
    GoodNode("TEXT", <<E("text", JNull)>>),
    GoodNode("LIST", <<E("children", JStr("not-array"))>>),
    GoodNode("LIST", <<E("children", JNull)>>),
    GoodNode("LIST", <<E("children", JArr(<<>>))>>),
    WithRole(JStr("x exceeds maxNodes")), WithRole(JStr("exceeds maxDepth")),
    WithRole(JStr("")), WithRole(JNum(5)), WithRole(Undefined),
    WithBbox(JArr(<<JNum(0), JNum(0), JNum(1)>>)),
    WithBbox(JArr(<<JNum(0), JNum(0), JStr("bad"), JNum(1)>>)),
    WithBbox(JStr("0,0,1,1")), WithBbox(Undefined),
    NodeOf(JStr(""), JStr("PAGE"), UnitBox, Undefined, JBool(TRUE), <<>>),
    NodeOf(JStr(""), JStr("PAGE"), UnitBox, JBool(FALSE), JNum(1), <<>>),
    NodeOf(Undefined, JStr("PAGE"), UnitBox, JBool(FALSE), JBool(TRUE), <<>>),
    JStr("node"), JNum(7), JBool(TRUE), JArr(<<>>) }

PairNodes == {OkLeaf, BogusLeaf, BadNode, JNull}

RECURSIVE Chain(_, _)
Chain(d, bottom) == IF d = 0 THEN bottom ELSE WithKids("SECTION", <<Chain(d - 1, bottom)>>)

Wide(n, kid) == WithKids("PAGE", [i \in 1..n |-> kid])

\* A root whose checks all fail, with k failing leaves, then a failing node
\* that has two failing children, then a last failing leaf.
CapTree(k) ==
  BadWithKids([i \in 1..k |-> BadNode] \o <<BadWithKids(<<BadNode, BadNode>>), BadNode>>)

FewRoots ==
  { OkLeaf, BogusLeaf, WithRole(JStr("x exceeds maxNodes")), Wide(MaxWide, OkLeaf),
    Chain(MaxChain, OkLeaf), Undefined }

TreeRoots ==
  LeafNodes \cup {JNull}
  \cup {WithKids("PAGE", <<a, b>>) : a, b \in PairNodes}
  \cup {Chain(d, b) : d \in 1..MaxChain, b \in {OkLeaf, BogusLeaf, JStr("node")}}
  \cup {Wide(n, k) : n \in 1..MaxWide, k \in {OkLeaf, BogusLeaf}}
  \cup {WithKids("PAGE", <<OkLeaf, Wide(2, OkLeaf), OkLeaf>>)}

GoodMeta ==
  <<E("url", JStr("https://example.com")), E("timestamp_ms", JNum(1700000000)),
    E("viewport", JObj(<<E("w_px", JNum(1920)), E("h_px", JNum(1080)), E("aspect", JNum(2))>>)),
    E("compiler", JObj(<<E("name", JStr("websketch-ir")), E("version", JStr("0.2.1")),
                         E("options_hash", JStr("test"))>>))>>

EmptyMeta == <<E("viewport", JObj(<<>>)), E("compiler", JObj(<<>>))>>

Metas ==
  { GoodMeta, <<>>, EmptyMeta,
    <<E("url", JNum(5)), E("timestamp_ms", JStr("now")), E("viewport", JNull),
      E("compiler", JArr(<<>>))>>,
    <<E("url", JStr("")), E("timestamp_ms", JNum(0)),
      E("viewport", JObj(<<E("h_px", JNum(1080)), E("aspect", JStr("wide"))>>)),
      E("compiler", JObj(<<E("name", JNum(1)), E("version", JStr("x")),
                           E("options_hash", JNull)>>))>> }

Versions ==
  { Undefined, JStr("0.1"), JStr("99.0"), JStr(""), JStr("undefined"), JNum(1), JNull,
    JBool(TRUE), JArr(<<>>), JObj(<<>>) }

Capture(version, meta, root) ==
  JObj(SelectSeq(<<E("version", version)>>, LAMBDA e : e.v.t # "undefined")
       \o meta
       \o SelectSeq(<<E("root", root)>>, LAMBDA e : e.v.t # "undefined"))

\* Keys that no interface of grammar.ts names, with values of several types.
ExtraEntries ==
  { E("x_future", JStr("v")), E("extra", JNull),
    E("meta", JObj(<<E("children", JStr("none")), E("role", JNum(0))>>)) }

ExtraLevels == {"capture", "viewport", "compiler", "node", "child", "text", "all"}

\* A capture of two nodes that passes every check, with the entry x added at
\* the level named.
ExtraKeyCapture(level, x) ==
  LET At(l) == IF level \in {l, "all"} THEN <<x>> ELSE <<>>
      text == JObj(<<E("kind", JStr("short")), E("hash", JStr("h1"))>> \o At("text"))
      child == GoodNode("TEXT", <<E("text", text)>> \o At("child"))
      root == GoodNode("PAGE", At("node") \o <<E("children", JArr(<<child>>))>>)
  IN JObj(<<E("version", JStr("0.1"))>> \o At("capture")
          \o <<E("url", JStr("https://example.com")), E("timestamp_ms", JNum(1700000000)),
               E("viewport", JObj(<<E("w_px", JNum(1920)), E("h_px", JNum(1080)),
                                    E("aspect", JNum(2))>> \o At("viewport"))),
               E("compiler", JObj(At("compiler")
                                  \o <<E("name", JStr("websketch-ir")),
                                       E("version", JStr("0.2.1")),
                                       E("options_hash", JStr("test"))>>)),
               E("root", root)>>)

ExtraKeyCaptures == {ExtraKeyCapture(l, x) : l \in ExtraLevels, x \in ExtraEntries}

Values ==
  {Capture(v, m, r) : v \in Versions, m \in {GoodMeta, <<>>}, r \in FewRoots}
  \cup ExtraKeyCaptures
  \cup {Capture(v, GoodMeta, r) : v \in {Undefined, JStr("0.1"), JStr("99.0")}, r \in TreeRoots}
  \cup {Capture(JStr("0.1"), m, OkLeaf) : m \in Metas}
  \cup {Capture(Undefined, EmptyMeta, CapTree(k)) : k \in (CapLeaves - 2)..CapLeaves}
  \cup {JNull, JStr("capture"), JNum(1), JBool(FALSE), JArr(<<>>), JArr(<<OkLeaf>>)}

MalformedTexts ==
  { "not json", "", "{", "[1,", "{\"version\":}", "nul", "{\"version\" \"0.1\"}",
    "{\"version\":\"0.1\",}", "{version:\"0.1\"}", "\"0.1", "{\"version\":\"0.1\"} x" }

LimitArgs ==
  { <<>>, [f \in {"maxNodes"} |-> SmallMaxNodes], [f \in {"maxDepth"} |-> SmallMaxDepth],
    [f \in {"maxNodes", "maxDepth"} |-> IF f = "maxNodes" THEN SmallMaxNodes + 1
                                        ELSE SmallMaxDepth - 1] }

(***************************************************************************)
(* Numbers of the similarity and diff arithmetic: binary floating point    *)
(* with a mantissa of MantBits bits, rounding every result to the nearest  *)
(* value, ties to the even mantissa (IEEE 754, at a reduced precision).    *)
(* A number is the integer count of its units of 2^-FracBits.              *)
(***************************************************************************)
MantBits == 6
FracBits == 10

RECURSIVE Pow2(_)
Pow2(n) == IF n = 0 THEN 1 ELSE 2 * Pow2(n - 1)

One == Pow2(FracBits)

RoundHalfEven(num, den) ==
  LET q == num \div den
      r == num % den
  IN IF 2 * r > den \/ (2 * r = den /\ q % 2 = 1) THEN q + 1 ELSE q

\* The exponent at which num/den has a mantissa of MantBits bits.
RECURSIVE Exponent(_, _, _)
Exponent(num, den, s) ==
  IF num >= den * Pow2(s + MantBits) THEN Exponent(num, den, s + 1) ELSE s

\* The number nearest to num/den units.
Rnd(num, den) ==
  LET mag == IF num < 0 THEN 0 - num ELSE num
      s == Exponent(mag, den, 0)
      r == RoundHalfEven(mag, den * Pow2(s)) * Pow2(s)
  IN IF num < 0 THEN 0 - r ELSE r

\* The literal num/den, and the integer n.
Lit(num, den) == Rnd(num * One, den)
Whole(n) == n * One

\* a + b, a - b, a * b, a / b
FAdd(a, b) == Rnd(a + b, 1)
FSub(a, b) == Rnd(a - b, 1)
FMul(a, b) == Rnd(a * b, One)
FDiv(a, b) == IF b < 0 THEN Rnd((0 - a) * One, 0 - b) ELSE Rnd(a * One, b)

Abs(a) == IF a < 0 THEN 0 - a ELSE a
Max2(a, b) == IF a >= b THEN a ELSE b
Min2(a, b) == IF a <= b THEN a ELSE b

\* value.toFixed(digits), for a value that is not negative: the decimal nearest
\* to the exact value, the larger one of two that are as near.
RECURSIVE Pow10(_)
Pow10(n) == IF n = 0 THEN 1 ELSE 10 * Pow10(n - 1)

RECURSIVE PadLeft(_, _)
PadLeft(s, n) == IF Len(s) >= n THEN s ELSE PadLeft("0" \o s, n)

Decimal(q, digits) ==
  IF digits = 0 THEN ToString(q)
  ELSE ToString(q \div Pow10(digits)) \o "." \o PadLeft(ToString(q % Pow10(digits)), digits)

ToFixed(a, digits) == Decimal((2 * a * Pow10(digits) + One) \div (2 * One), digits)

(***************************************************************************)
(* text.ts: djb2Hash / sha256Sync.  The 32-bit hash is kept as two halves  *)
(* of 16 bits.                                                             *)
(***************************************************************************)
\* The printable ASCII characters from code 32 to 95, and from code 97 to 126.
AsciiLow == " !\"#$%&'()*+,-./0123456789:;<=>?@ABCDEFGHIJKLMNOPQRSTUVWXYZ[\\]^_"
AsciiHigh == "abcdefghijklmnopqrstuvwxyz{|}~"

\* text.charCodeAt(i), for these characters
CharCode ==
  [c \in {Ch(AsciiLow, i) : i \in 1..Len(AsciiLow)}
          \cup {Ch(AsciiHigh, i) : i \in 1..Len(AsciiHigh)} |->
     IF \E i \in 1..Len(AsciiLow) : Ch(AsciiLow, i) = c
       THEN 31 + (CHOOSE i \in 1..Len(AsciiLow) : Ch(AsciiLow, i) = c)
       ELSE 96 + (CHOOSE i \in 1..Len(AsciiHigh) : Ch(AsciiHigh, i) = c)]

\* a ^ b on numbers of n bits
RECURSIVE Xor(_, _, _)
Xor(a, b, n) ==
  IF n = 0 THEN 0
  ELSE 2 * Xor(a \div 2, b \div 2, n - 1) + (IF a % 2 = b % 2 THEN 0 ELSE 1)

\* a ^ b for the numbers below 128, tabulated
XorLow == [a \in 0..127 |-> [b \in 0..127 |-> Xor(a, b, 7)]]

(***************************************************************************)
(* text.ts: normalizeText.  A text is the sequence of its UTF-16 code      *)
(* units.                                                                  *)
(***************************************************************************)
\* /[\u200B-\u200D\uFEFF\u00AD\u2060\u180E\u202A-\u202E\u2066-\u2069]/
INVISIBLE_CHARS ==
  (8203..8205) \cup {65279, 173, 8288, 6158} \cup (8234..8238) \cup (8294..8297)

\* What \s matches and trim() strips: WhiteSpace and LineTerminator of
\* ECMAScript (TAB, VT, FF, SP, NBSP, ZWNBSP, the category Zs; LF, CR, LS, PS).
JsWhiteSpace ==
  (9..13) \cup {32, 160, 5760} \cup (8192..8202) \cup {8232, 8233, 8239, 8287, 12288, 65279}

\* The letters with a case among the code units below U+0400, and the code
\* units the final-sigma rule skips.
CasedLetters ==
  (65..90) \cup (97..122) \cup ((192..254) \ {215, 247}) \cup {304, 931, 962, 963, 978}

CaseIgnorable == {173, 775} \cup INVISIBLE_CHARS

\* Final_Sigma of String.prototype.toLowerCase: a cased letter before, none
\* after, case-ignorable code units skipped.
FinalSigma(text, i) ==
  /\ \E j \in 1..(i - 1) :
       /\ text[j] \in CasedLetters
       /\ \A k \in (j + 1)..(i - 1) : text[k] \in CaseIgnorable
  /\ ~\E j \in (i + 1)..Len(text) :
        /\ text[j] \in CasedLetters
        /\ \A k \in (i + 1)..(j - 1) : text[k] \in CaseIgnorable

\* The lower case of the code unit at i.
LowerAt(text, i) ==
  LET c == text[i]
  IN IF c \in 65..90 \/ c \in ((192..222) \ {215}) THEN <<c + 32>>
     ELSE IF c = 304 THEN <<105, 775>>
     ELSE IF c = 931 THEN (IF FinalSigma(text, i) THEN <<962>> ELSE <<963>>)
     ELSE <<c>>

RECURSIVE LowerFrom(_, _)
LowerFrom(text, i) ==
  IF i > Len(text) THEN <<>> ELSE LowerAt(text, i) \o LowerFrom(text, i + 1)

toLowerCase(text) == LowerFrom(text, 1)

\* .replace(INVISIBLE_CHARS, "")
RemoveInvisible(text) == SelectSeq(text, LAMBDA c : c \notin INVISIBLE_CHARS)

\* .replace(/\s+/g, " ")
CollapseWhitespace(text) ==
  LET kept == SelectSeq([i \in 1..Len(text) |-> i],
                        LAMBDA i : ~(/\ text[i] \in JsWhiteSpace
                                     /\ i > 1
                                     /\ text[IF i > 1 THEN i - 1 ELSE 1] \in JsWhiteSpace))
  IN [k \in 1..Len(kept) |-> IF text[kept[k]] \in JsWhiteSpace THEN 32 ELSE text[kept[k]]]

\* .trim()
trim(text) ==
  LET inked == {i \in 1..Len(text) : text[i] \notin JsWhiteSpace}
  IN IF inked = {} THEN <<>>
     ELSE SubSeq(text, CHOOSE i \in inked : \A j \in inked : i <= j,
                       CHOOSE i \in inked : \A j \in inked : i >= j)

normalizeText(text) == toLowerCase(trim(CollapseWhitespace(RemoveInvisible(text))))

\* The step of the additive djb2: hash * 33 + code.
Djb2StepAdd(h, code) ==
  LET lo == h.lo * 33 + code
  IN [hi |-> (h.hi * 33 + (lo \div 65536)) % 65536, lo |-> lo % 65536]

\* hash = ((hash << 5) + hash) ^ code, in 32 bits; a code is below 128 and
\* changes the low seven bits only.
Djb2Step(h, code) ==
  LET lo == h.lo * 33
      hi == (h.hi * 33 + (lo \div 65536)) % 65536
      low == lo % 65536
  IN [hi |-> hi, lo |-> (low - (low % 128)) + XorLow[low % 128][code]]

Djb2Seed == 5381

\* F applied to the value of v.
Then(v, F(_)) == CHOOSE r \in {F(x) : x \in {v}} : TRUE

\* The hash after the characters i..j of text, from the hash h before them:
\* the loop of djb2Hash, cut in two halves that run one after the other.
RECURSIVE Djb2Fold(_, _, _, _)
Djb2Fold(h, text, i, j) ==
  IF i > j THEN h
  ELSE IF i = j THEN Djb2Step(h, CharCode[Ch(text, i)])
  ELSE Then(Djb2Fold(h, text, i, (i + j) \div 2),
            LAMBDA half : Djb2Fold(half, text, ((i + j) \div 2) + 1, j))

HexDigits == "0123456789abcdef"

\* n.toString(16).padStart(width, "0")
RECURSIVE Hex(_, _)
Hex(n, width) ==
  IF width = 0 THEN "" ELSE Hex(n \div 16, width - 1) \o Ch(HexDigits, (n % 16) + 1)

djb2Hash(text) ==
  Then(text, LAMBDA t :
    Then(Djb2Fold([hi |-> 0, lo |-> Djb2Seed], t, 1, Len(t)),
         LAMBDA h : Hex(h.hi, 4) \o Hex(h.lo, 4)))

sha256Sync(text) == djb2Hash(text)

(***************************************************************************)
(* grammar.ts: a UINode, as a record.  An optional field is a sequence,    *)
(* empty when the field is absent; semantic and name_hash, which the code  *)
(* only tests for truth, are "" when absent; children is the list, empty   *)
(* when absent.                                                            *)
(***************************************************************************)
BboxQuantMilli == 1

UINode(role, bbox, interactive, semantic, text, children) ==
  [id |-> "", role |-> role, bbox |-> bbox, interactive |-> interactive, visible |-> TRUE,
   enabled |-> <<>>, semantic |-> semantic, text |-> text, name_hash |-> "", z |-> <<>>,
   children |-> children]

TextSignal(kind, hash, len) == <<[kind |-> kind, hash |-> hash, len |-> len]>>

\* node.text?.hash
TextHash(node) == IF node.text = <<>> THEN <<>> ELSE node.text[1].hash

\* The truth of an optional string.
Truthy(opt) == opt # <<>> /\ opt[1] # ""

(***************************************************************************)
(* hash.ts: quantization, node hashes, fingerprints.                       *)
(***************************************************************************)
\* bboxToString(quantizeBbox(bbox)): each component at the nearest multiple of
\* BBOX_QUANT_STEP, with three decimals.
QuantizedBboxString(bbox) ==
  JoinStr([i \in 1..4 |->
             Decimal(BboxQuantMilli * ((2 * bbox[i] * 1000 + BboxQuantMilli * One)
                                       \div (2 * BboxQuantMilli * One)), 3)], ",")

DEFAULT_HASH_OPTIONS == [includeText |-> TRUE, includeName |-> TRUE, includeZ |-> FALSE]
\* Layout options that keep the text hash.
LayoutHashOptionsWithText == [includeText |-> TRUE, includeName |-> FALSE, includeZ |-> FALSE]
LayoutHashOptions == [includeText |-> FALSE, includeName |-> FALSE, includeZ |-> FALSE]

Bit(b) == IF b THEN "1" ELSE "0"
Slice16(s) == SubSeq(s, 1, Min2(16, Len(s)))

\* A shallow hash that takes in the id of the node.
hashNodeShallowWithId(node, opts) ==
  sha256Sync(JoinStr(<<"r:" \o node.role, "b:" \o QuantizedBboxString(node.bbox),
                       "i:" \o Bit(node.interactive), "v:" \o Bit(node.visible),
                       "id:" \o node.id>>, "|"))

hashNodeShallow(node, opts) ==
  sha256Sync(JoinStr(
    <<"r:" \o node.role, "b:" \o QuantizedBboxString(node.bbox),
      "i:" \o Bit(node.interactive), "v:" \o Bit(node.visible)>>
    \o (IF node.enabled # <<>> THEN <<"e:" \o Bit(node.enabled[1])>> ELSE <<>>)
    \o (IF node.semantic # "" THEN <<"s:" \o node.semantic>> ELSE <<>>)
    \o (IF opts.includeText /\ Truthy(TextHash(node))
          THEN <<"t:" \o Slice16(TextHash(node)[1])>> ELSE <<>>)
    \o (IF opts.includeName /\ node.name_hash # ""
          THEN <<"n:" \o Slice16(node.name_hash)>> ELSE <<>>)
    \o (IF opts.includeZ /\ node.z # <<>> THEN <<"z:" \o ToString(node.z[1])>> ELSE <<>>),
    "|"))

\* A comparator that leaves the children in their input order.
ChildBeforeInputOrder(a, b) == FALSE

\* The comparator of hashNodeDeep says that a goes before b.
ChildBefore(a, b) ==
  LET yDiff == FSub(a.bbox[2], b.bbox[2])
  IN IF Abs(yDiff) > Lit(BboxQuantMilli, 1000) THEN yDiff < 0
     ELSE FSub(a.bbox[1], b.bbox[1]) < 0

\* A stable insertion sort, as Array.prototype.sort with that comparator.
RECURSIVE InsertChild(_, _)
InsertChild(sorted, c) ==
  IF sorted = <<>> THEN <<c>>
  ELSE IF ChildBefore(c, sorted[Len(sorted)])
    THEN Append(InsertChild(SubSeq(sorted, 1, Len(sorted) - 1), c), sorted[Len(sorted)])
  ELSE Append(sorted, c)

RECURSIVE SortChildren(_)
SortChildren(kids) ==
  IF kids = <<>> THEN <<>>
  ELSE InsertChild(SortChildren(SubSeq(kids, 1, Len(kids) - 1)), kids[Len(kids)])

\* A deep hash that wraps the hash of a node without children as well.
RECURSIVE hashNodeDeepWrapped(_, _)
hashNodeDeepWrapped(node, opts) ==
  LET sorted == SortChildren(node.children)
  IN sha256Sync(hashNodeShallow(node, opts) \o "|c:["
                \o JoinStr([i \in 1..Len(sorted) |-> hashNodeDeepWrapped(sorted[i], opts)], ",")
                \o "]")

\* An absent list of children and an empty one are both the empty sequence.
RECURSIVE hashNodeDeep(_, _)
hashNodeDeep(node, opts) ==
  IF node.children = <<>> THEN hashNodeShallow(node, opts)
  ELSE LET sorted == SortChildren(node.children)
       IN sha256Sync(hashNodeShallow(node, opts) \o "|c:["
                     \o JoinStr([i \in 1..Len(sorted) |-> hashNodeDeep(sorted[i], opts)], ",")
                     \o "]")

\* A fingerprint that takes in the url of the capture.
fingerprintWithUrl(c) ==
  sha256Sync(hashNodeDeep(c.root, DEFAULT_HASH_OPTIONS) \o "|a:" \o ToFixed(c.viewport.aspect, 2)
             \o "|u:" \o c.url)

fingerprintCapture(c) ==
  sha256Sync(hashNodeDeep(c.root, DEFAULT_HASH_OPTIONS) \o "|a:" \o ToFixed(c.viewport.aspect, 2))

fingerprintLayout(c) ==
  sha256Sync(hashNodeDeep(c.root, LayoutHashOptions) \o "|a:" \o ToFixed(c.viewport.aspect, 2))

\* Math.round of a number that is not negative.
MathRound(a) == (2 * a + One) \div (2 * One)

\* An id that leaves the parent's path out.
generateNodeIdFlat(node, parentPath) ==
  "/" \o hashNodeShallow(node, DEFAULT_HASH_OPTIONS) \o "_"
  \o ToString(MathRound(FMul(node.bbox[1], Whole(100)))) \o "_"
  \o ToString(MathRound(FMul(node.bbox[2], Whole(100))))

\* generateNodeId(node, parentPath): the first 12 characters of the shallow
\* hash, which has 8, and the position hint.
generateNodeId(node, parentPath) ==
  LET hash == hashNodeShallow(node, DEFAULT_HASH_OPTIONS)
      posHint == ToString(MathRound(FMul(node.bbox[1], Whole(100)))) \o "_"
                 \o ToString(MathRound(FMul(node.bbox[2], Whole(100))))
  IN (IF parentPath # "" THEN parentPath ELSE "")
     \o "/" \o SubSeq(hash, 1, Min2(12, Len(hash))) \o "_" \o posHint

\* The node of a tree at a path of child numbers, and the tree with the id of
\* that node written.
RECURSIVE NodeAt(_, _)
NodeAt(node, path) ==
  IF path = <<>> THEN node ELSE NodeAt(node.children[Head(path)], Tail(path))

RECURSIVE WriteId(_, _, _)
WriteId(node, path, id) ==
  IF path = <<>> THEN [node EXCEPT !.id = id]
  ELSE [node EXCEPT !.children[Head(path)] = WriteId(@, Tail(path), id)]

\* bboxSimilarity(a, b): intersection over union
bboxSimilarity(a, b) ==
  LET x1 == Max2(a[1], b[1])
      y1 == Max2(a[2], b[2])
      x2 == Min2(FAdd(a[1], a[3]), FAdd(b[1], b[3]))
      y2 == Min2(FAdd(a[2], a[4]), FAdd(b[2], b[4]))
      intersection == FMul(Max2(0, FSub(x2, x1)), Max2(0, FSub(y2, y1)))
      areaA == FMul(a[3], a[4])
      areaB == FMul(b[3], b[4])
      union == FSub(FAdd(areaA, areaB), intersection)
  IN IF union = 0 THEN 0 ELSE FDiv(intersection, union)

\* nodeSimilarity(a, b): score / weights
nodeSimilarity(a, b) ==
  LET role == IF a.role = b.role THEN Whole(3) ELSE 0
      box == FAdd(role, FMul(bboxSimilarity(a.bbox, b.bbox), Whole(2)))
      inter == IF a.interactive = b.interactive THEN FAdd(box, Whole(1)) ELSE box
      semEq == a.semantic # "" /\ b.semantic # "" /\ a.semantic = b.semantic
      sem == IF semEq THEN FAdd(inter, Whole(2)) ELSE inter
      semW == IF ~semEq /\ (a.semantic # "" \/ b.semantic # "") THEN 2 ELSE 0
      score == IF Truthy(TextHash(a)) /\ Truthy(TextHash(b)) /\ TextHash(a) = TextHash(b)
                 THEN FAdd(sem, Whole(1)) ELSE sem
  IN FDiv(score, Whole(3 + 2 + 1 + semW + 1))

(***************************************************************************)
(* index.ts: renderAscii.                                                  *)
(***************************************************************************)
DEFAULT_SHOW_ROLES ==
  { "NAV", "HEADER", "FOOTER", "MODAL", "TOAST", "FORM", "LIST", "TABLE", "CARD", "INPUT",
    "BUTTON", "LINK", "DROPDOWN", "CHECKBOX", "RADIO", "IMAGE", "PAGINATION" }

ROLE_ABBREV ==
  [PAGE |-> "PG", NAV |-> "NAV", HEADER |-> "HDR", FOOTER |-> "FTR", SECTION |-> "SEC",
   CARD |-> "CRD", LIST |-> "LST", TABLE |-> "TBL", MODAL |-> "MDL", TOAST |-> "TST",
   DROPDOWN |-> "DRP", FORM |-> "FRM", INPUT |-> "INP", BUTTON |-> "BTN", LINK |-> "LNK",
   CHECKBOX |-> "CHK", RADIO |-> "RAD", ICON |-> "ICO", IMAGE |-> "IMG", TEXT |-> "TXT",
   PAGINATION |-> "PAG", UNKNOWN |-> "???"]

ROLE_PRIORITY ==
  [PAGE |-> 0, SECTION |-> 1, CARD |-> 2, LIST |-> 2, TABLE |-> 2, NAV |-> 3, HEADER |-> 3,
   FOOTER |-> 3, FORM |-> 4, TEXT |-> 1, IMAGE |-> 2, INPUT |-> 5, BUTTON |-> 6, LINK |-> 5,
   DROPDOWN |-> 5, CHECKBOX |-> 5, RADIO |-> 5, ICON |-> 4, PAGINATION |-> 3, MODAL |-> 8,
   TOAST |-> 9, UNKNOWN |-> 0]

\* BOX_CHARS.ascii and BOX_CHARS.none
BOX_CHARS ==
  [ascii |-> [tl |-> "+", tr |-> "+", bl |-> "+", br |-> "+", h |-> "-", v |-> "|"],
   none |-> [tl |-> " ", tr |-> " ", bl |-> " ", br |-> " ", h |-> " ", v |-> " "]]

\* The character U+2026 that ends a truncated label.
Ellipsis == "~"

\* new AsciiGrid(width, height): the cells
BlankCells(width, height) ==
  [y \in 0..(height - 1) |-> [x \in 0..(width - 1) |-> [char |-> " ", priority |-> -1]]]

\* A call of grid.set, with the role priority of the node that makes it.
SetCall(x, y, char, priority, role) ==
  [kind |-> "set", x |-> x, y |-> y, char |-> char, priority |-> priority, role |-> role]

\* The calls of set that writeString makes.
writeString(x, y, str, priority, role) ==
  [i \in 1..Len(str) |-> SetCall(x + i - 1, y, Ch(str, i), priority, role)]

\* The calls of set that drawBox makes.
drawBox(x, y, w, h, priority, style, role) ==
  LET chars == BOX_CHARS[style]
  IN IF w < 2 \/ h < 2 THEN <<>>
     ELSE <<SetCall(x, y, chars.tl, priority, role),
            SetCall(x + w - 1, y, chars.tr, priority, role),
            SetCall(x, y + h - 1, chars.bl, priority, role),
            SetCall(x + w - 1, y + h - 1, chars.br, priority, role)>>
          \o [k \in 1..(2 * (w - 2)) |->
                IF k % 2 = 1 THEN SetCall(x + (k + 1) \div 2, y, chars.h, priority, role)
                ELSE SetCall(x + k \div 2, y + h - 1, chars.h, priority, role)]
          \o [k \in 1..(2 * (h - 2)) |->
                IF k % 2 = 1 THEN SetCall(x, y + (k + 1) \div 2, chars.v, priority, role)
                ELSE SetCall(x + w - 1, y + k \div 2, chars.v, priority, role)]

\* Math.floor and Math.ceil of a number that is not negative.
MathFloor(a) == a \div One
MathCeil(a) == (a + One - 1) \div One

bboxToGrid(bbox, gridWidth, gridHeight) ==
  [x |-> MathFloor(FMul(bbox[1], Whole(gridWidth))),
   y |-> MathFloor(FMul(bbox[2], Whole(gridHeight))),
   w |-> Max2(2, MathCeil(FMul(bbox[3], Whole(gridWidth)))),
   h |-> Max2(2, MathCeil(FMul(bbox[4], Whole(gridHeight))))]

nodeLabel(node, opts) ==
  LET len == IF node.text = <<>> THEN 0 ELSE node.text[1].len
      lenIndicator == IF len < 10 THEN "." ELSE IF len < 50 THEN ".."
                      ELSE IF len < 200 THEN "..." ELSE "...."
  IN "[" \o ROLE_ABBREV[node.role]
     \o (IF opts.showSemantics /\ node.semantic # "" THEN ":" \o node.semantic ELSE "")
     \o (IF opts.showTextLen /\ len # 0 THEN lenIndicator ELSE "")
     \o "]"

shouldRender(node, showRoles) == node.interactive \/ node.role \in showRoles

containerRoles ==
  {"NAV", "HEADER", "FOOTER", "FORM", "MODAL", "TOAST", "CARD", "LIST", "TABLE", "SECTION"}

\* The calls of set renderNode makes for the node itself, in order.
NodeWrites(node, opts) ==
  LET g == bboxToGrid(node.bbox, opts.width, opts.height)
      priority == ROLE_PRIORITY[node.role]
      label == nodeLabel(node, opts)
      maxLabelLen == Max2(0, g.w - 2)
      \* slice(0, -1) of a label drops its last character
      cut == IF maxLabelLen - 1 >= 0 THEN maxLabelLen - 1 ELSE Len(label) - 1
      truncatedLabel == IF Len(label) > maxLabelLen
                          THEN SubSeq(label, 1, Min2(cut, Len(label))) \o Ellipsis
                          ELSE label
  IN (IF node.role \in containerRoles /\ g.w >= 4 /\ g.h >= 3
        THEN drawBox(g.x, g.y, g.w, g.h, priority, opts.borderStyle, priority)
        ELSE <<>>)
     \o writeString(g.x + 1, g.y, truncatedLabel, priority + 1, priority)

(***************************************************************************)
(* diff.ts: flattening, matching, classification.                          *)
(***************************************************************************)
DEFAULT_OPTIONS ==
  [includeText |-> TRUE, includeName |-> TRUE, matchThreshold |-> Lit(1, 2),
   topChangesLimit |-> 10, moveThreshold |-> Lit(1, 100), resizeThreshold |-> Lit(1, 100)]

\* currentPath of flattenTree
CurrentPath(node, path) == IF path # "" THEN path \o "/" \o node.role ELSE node.role

RECURSIVE flattenTree(_, _, _), FlattenChildren(_, _, _, _)
flattenTree(node, depth, path) ==
  <<[node |-> node, depth |-> depth, path |-> CurrentPath(node, path),
     hash |-> hashNodeShallow(node, DEFAULT_HASH_OPTIONS)]>>
  \o FlattenChildren(node.children, 0, depth, CurrentPath(node, path))

\* The loop of flattenTree over the children, from child i on.
FlattenChildren(children, i, depth, currentPath) ==
  IF i >= Len(children) THEN <<>>
  ELSE flattenTree(children[i + 1], depth + 1, currentPath \o "[" \o ToString(i) \o "]")
       \o FlattenChildren(children, i + 1, depth, currentPath)

RECURSIVE countNodes(_)
countNodes(node) ==
  LET RECURSIVE Kids(_)
      Kids(i) == IF i > Len(node.children) THEN 0
                 ELSE countNodes(node.children[i]) + Kids(i + 1)
  IN 1 + Kids(1)

\* A filter that lets every pair through.
PlausibleAlways(a, b) == TRUE

\* The quick filter of findMatches lets the pair through.
Plausible(a, b) ==
  a.role = b.role \/ ~(bboxSimilarity(a.bbox, b.bbox) < Lit(3, 10))

\* The candidates of findMatches in the order the two loops push them (indices
\* from 0).
Candidates(nodesA, nodesB, opts) ==
  LET nb == Len(nodesB)
      all == [p \in 1..(Len(nodesA) * nb) |-> [i |-> (p - 1) \div nb, j |-> (p - 1) % nb]]
      Sim(c) == nodeSimilarity(nodesA[c.i + 1].node, nodesB[c.j + 1].node)
      kept == SelectSeq(all, LAMBDA c :
                /\ Plausible(nodesA[c.i + 1].node, nodesB[c.j + 1].node)
                /\ Sim(c) >= opts.matchThreshold)
  IN [k \in 1..Len(kept) |-> [i |-> kept[k].i, j |-> kept[k].j, sim |-> Sim(kept[k])]]

\* The candidates sorted the other way, ascending.
SortBySimAscending(cands) ==
  LET RECURSIVE Ins(_, _), Srt(_)
      Ins(sorted, c) ==
        IF sorted = <<>> THEN <<c>>
        ELSE IF FSub(c.sim, sorted[Len(sorted)].sim) < 0
          THEN Append(Ins(SubSeq(sorted, 1, Len(sorted) - 1), c), sorted[Len(sorted)])
        ELSE Append(sorted, c)
      Srt(cs) == IF cs = <<>> THEN <<>>
                 ELSE Ins(Srt(SubSeq(cs, 1, Len(cs) - 1)), cs[Len(cs)])
  IN Srt(cands)

\* An insertion that puts a candidate before those of equal similarity.
RECURSIVE InsertBySimUnstable(_, _)
InsertBySimUnstable(sorted, c) ==
  IF sorted = <<>> THEN <<c>>
  ELSE IF FSub(sorted[Len(sorted)].sim, c.sim) <= 0
    THEN Append(InsertBySimUnstable(SubSeq(sorted, 1, Len(sorted) - 1), c), sorted[Len(sorted)])
  ELSE Append(sorted, c)

\* candidates.sort((a, b) => b.sim - a.sim): stable, descending.
RECURSIVE InsertBySim(_, _)
InsertBySim(sorted, c) ==
  IF sorted = <<>> THEN <<c>>
  ELSE IF FSub(sorted[Len(sorted)].sim, c.sim) < 0
    THEN Append(InsertBySim(SubSeq(sorted, 1, Len(sorted) - 1), c), sorted[Len(sorted)])
  ELSE Append(sorted, c)

RECURSIVE SortBySim(_)
SortBySim(cands) ==
  IF cands = <<>> THEN <<>>
  ELSE InsertBySim(SortBySim(SubSeq(cands, 1, Len(cands) - 1)), cands[Len(cands)])

\* A test that looks at the A side only.
TakenInA(c, inA, inB) == c.i \in inA

\* if (usedA.has(i) || usedB.has(j)) continue;
Taken(c, inA, inB) == c.i \in inA \/ c.j \in inB

\* The greedy loop of findMatches from candidate k on.
RECURSIVE GreedyFrom(_, _, _, _, _)
GreedyFrom(cands, k, found, nodesA, nodesB) ==
  IF k > Len(cands) THEN found
  ELSE LET c == cands[k]
       IN IF Taken(c, found.usedA, found.usedB)
            THEN GreedyFrom(cands, k + 1, found, nodesA, nodesB)
            ELSE GreedyFrom(cands, k + 1,
                   [matches |-> Append(found.matches,
                                  [nodeA |-> nodesA[c.i + 1], nodeB |-> nodesB[c.j + 1],
                                   similarity |-> c.sim, i |-> c.i, j |-> c.j]),
                    usedA |-> found.usedA \cup {c.i},
                    usedB |-> found.usedB \cup {c.j}],
                   nodesA, nodesB)

findMatches(nodesA, nodesB, opts) ==
  GreedyFrom(SortBySim(Candidates(nodesA, nodesB, opts)), 1,
             [matches |-> <<>>, usedA |-> {}, usedB |-> {}], nodesA, nodesB)

computeBboxDelta(a, b) ==
  [dx |-> FSub(b[1], a[1]), dy |-> FSub(b[2], a[2]),
   dw |-> FSub(b[3], a[3]), dh |-> FSub(b[4], a[4])]

Change(type, nodeA, nodeB, similarity) ==
  [type |-> type, nodeA |-> nodeA, nodeB |-> nodeB, similarity |-> similarity]

\* classifyMatchChanges with the thresholds compared by >= and the text always
\* compared.
classifyAtThreshold(match, opts) ==
  LET a == match.nodeA.node
      b == match.nodeB.node
      delta == computeBboxDelta(a.bbox, b.bbox)
      moved == Abs(delta.dx) >= opts.moveThreshold \/ Abs(delta.dy) >= opts.moveThreshold
      resized == Abs(delta.dw) >= opts.resizeThreshold \/ Abs(delta.dh) >= opts.resizeThreshold
      One1(cond, type) ==
        IF cond THEN <<Change(type, <<a>>, <<b>>, <<match.similarity>>)>> ELSE <<>>
  IN One1(moved, "moved") \o One1(resized, "resized")
     \o One1(a.role # b.role, "role_changed")
     \o One1(opts.includeText /\ TextHash(a) # TextHash(b), "text_changed")
     \o One1(a.interactive # b.interactive, "interactive_changed")
     \o One1(Len(a.children) # Len(b.children), "children_changed")

classifyMatchChanges(match, opts) ==
  LET a == match.nodeA.node
      b == match.nodeB.node
      delta == computeBboxDelta(a.bbox, b.bbox)
      moved == Abs(delta.dx) > opts.moveThreshold \/ Abs(delta.dy) > opts.moveThreshold
      resized == Abs(delta.dw) > opts.resizeThreshold \/ Abs(delta.dh) > opts.resizeThreshold
      One1(cond, type) ==
        IF cond THEN <<Change(type, <<a>>, <<b>>, <<match.similarity>>)>> ELSE <<>>
  IN One1(moved, "moved") \o One1(resized, "resized")
     \o One1(a.role # b.role, "role_changed")
     \o One1(opts.includeText /\ TextHash(a) # TextHash(b), "text_changed")
     \o One1(a.interactive # b.interactive, "interactive_changed")
     \o One1(Len(a.children) # Len(b.children), "children_changed")

bboxArea(bbox) == FMul(bbox[3], bbox[4])

ChangeTypes ==
  { "added", "removed", "moved", "resized", "text_changed", "interactive_changed",
    "role_changed", "children_changed" }

\* The changes of diff, in the order it pushes them.
AllChanges(ms, nodesA, nodesB, inA, inB, opts) ==
  LET RECURSIVE Matched(_)
      Matched(k) == IF k > Len(ms) THEN <<>>
                    ELSE classifyMatchChanges(ms[k], opts) \o Matched(k + 1)
      unmatchedA == SelectSeq([i \in 1..Len(nodesA) |-> [at |-> i - 1, flat |-> nodesA[i]]],
                              LAMBDA e : e.at \notin inA)
      unmatchedB == SelectSeq([j \in 1..Len(nodesB) |-> [at |-> j - 1, flat |-> nodesB[j]]],
                              LAMBDA e : e.at \notin inB)
  IN Matched(1)
     \o [k \in 1..Len(unmatchedB) |-> Change("added", <<>>, <<unmatchedB[k].flat.node>>, <<>>)]
     \o [k \in 1..Len(unmatchedA) |-> Change("removed", <<unmatchedA[k].flat.node>>, <<>>, <<>>)]

\* The changes of diff(a, b, opts), computed in one go.
diffChanges(a, b, opts) ==
  LET nodesA == flattenTree(a.root, 0, "")
      nodesB == flattenTree(b.root, 0, "")
      found == findMatches(nodesA, nodesB, opts)
  IN AllChanges(found.matches, nodesA, nodesB, found.usedA, found.usedB, opts)

\* The area diff ranks a change by.
ChangeArea(ch) ==
  bboxArea(IF ch.nodeA # <<>> THEN ch.nodeA[1].bbox ELSE ch.nodeB[1].bbox)

\* The changes left in the order they were detected.
SortByAreaNot(chs) == chs

\* [...changes].sort((a, b) => areaB - areaA): stable, descending.
RECURSIVE InsertByArea(_, _)
InsertByArea(sorted, ch) ==
  IF sorted = <<>> THEN <<ch>>
  ELSE IF FSub(ChangeArea(sorted[Len(sorted)]), ChangeArea(ch)) < 0
    THEN Append(InsertByArea(SubSeq(sorted, 1, Len(sorted) - 1), ch), sorted[Len(sorted)])
  ELSE Append(sorted, ch)

RECURSIVE SortByArea(_)
SortByArea(chs) ==
  IF chs = <<>> THEN <<>>
  ELSE InsertByArea(SortByArea(SubSeq(chs, 1, Len(chs) - 1)), chs[Len(chs)])

\* What diff returns, from the changes it collected.
DiffResult(a, b, chs, opts) ==
  [summary |->
     [counts |-> [t \in ChangeTypes |-> Cardinality({k \in 1..Len(chs) : chs[k].type = t})],
      identical |-> Len(chs) = 0,
      fingerprintsMatch |-> fingerprintCapture(a) = fingerprintCapture(b),
      layoutFingerprintsMatch |-> fingerprintLayout(a) = fingerprintLayout(b),
      nodeCountA |-> countNodes(a.root),
      nodeCountB |-> countNodes(b.root)],
   changes |-> chs,
   topChanges |-> SubSeq(SortByArea(chs), 1, Min2(opts.topChangesLimit, Len(chs))),
   metadata |->
     [urlChanged |-> a.url # b.url,
      viewportChanged |-> a.viewport.w_px # b.viewport.w_px
                          \/ a.viewport.h_px # b.viewport.h_px,
      compilerVersionMatch |-> a.compiler.version = b.compiler.version]]

(***************************************************************************)
(* The inputs of diff: valid captures over a few boxes, among them boxes   *)
(* whose sizes are neighbouring numbers.                                   *)
(***************************************************************************)
FullBox == <<0, 0, One, One>>
LeftBox == <<0, 0, Lit(1, 2), Lit(1, 2)>>
RightBox == <<Lit(1, 2), 0, Lit(1, 2), Lit(1, 2)>>
LowBox == <<0, Lit(1, 2), Lit(1, 2), Lit(1, 4)>>
ShiftedBox == <<Lit(1, 16), 0, Lit(1, 2), Lit(1, 2)>>
TallBox == <<0, 0, Lit(1, 2), Lit(3, 4)>>
PointBox == <<Lit(1, 4), Lit(1, 4), 0, 0>>
WideBox == <<Lit(1, 8), 0, Lit(33, 256), One>>
NarrowBox == <<Lit(1, 8), 0, Lit(1, 8), One>>
EdgeBox == <<Lit(1, 100), 0, Lit(1, 2), Lit(1, 2)>>

Page(kids) == UINode("PAGE", FullBox, FALSE, "", <<>>, kids)
Button(box) == UINode("BUTTON", box, TRUE, "", <<>>, <<>>)
Label(box, hash) == UINode("TEXT", box, FALSE, "", TextSignal("short", <<hash>>, 5), <<>>)
Section(box, kids) == UINode("SECTION", box, FALSE, "", <<>>, kids)
Link(box, semantic) == UINode("LINK", box, TRUE, semantic, <<>>, <<>>)

DiffRoots ==
  { Page(<<>>),
    Page(<<Button(LeftBox), Label(RightBox, "1a2b3c4d")>>),
    Page(<<Button(LeftBox), Label(RightBox, "5e6f7a8b")>>),
    Page(<<Button(ShiftedBox), Label(RightBox, "1a2b3c4d")>>),
    Page(<<Button(TallBox), Label(RightBox, "1a2b3c4d")>>),
    Page(<<Link(LeftBox, ""), Label(RightBox, "1a2b3c4d")>>),
    Page(<<Link(LeftBox, "login"), Label(RightBox, "")>>),
    Page(<<Section(LeftBox, <<Button(LeftBox)>>), Label(RightBox, "1a2b3c4d")>>),
    Page(<<Button(LeftBox), Button(LeftBox)>>),
    Page(<<Button(EdgeBox), Label(RightBox, "1a2b3c4d")>>),
    Page(<<UINode("BUTTON", LeftBox, FALSE, "", <<>>, <<>>),
           UINode("LINK", RightBox, FALSE, "", TextSignal("short", <<"1a2b3c4d">>, 5), <<>>)>>),
    Page(<<Button(PointBox), Button(PointBox), Label(LowBox, "1a2b3c4d")>>),
    Page(<<Section(WideBox, <<Button(LowBox)>>), Section(NarrowBox, <<>>)>>),
    Section(FullBox, <<Section(FullBox, <<Label(LowBox, "1a2b3c4d")>>)>>) }

DiffCapture(root, url, aspect) ==
  [version |-> "0.1", url |-> url, timestamp_ms |-> 1700000000,
   viewport |-> [w_px |-> 1920, h_px |-> 1080, aspect |-> aspect],
   compiler |-> [name |-> "websketch-ir", version |-> "0.2.1", options_hash |-> "test"],
   root |-> root]

DiffCaptures ==
  {DiffCapture(r, "https://example.com", Lit(16, 9)) : r \in DiffRoots}
  \cup {DiffCapture(Page(<<>>), "https://example.com/login", Lit(4, 3))}

\* The thresholds two runs of diff are compared under.
MatchThresholds == {Lit(1, 10), Lit(1, 2), Lit(9, 10), Lit(99, 100)}

DiffOptionArgs ==
  { DEFAULT_OPTIONS,
    [DEFAULT_OPTIONS EXCEPT !.includeText = FALSE],
    [DEFAULT_OPTIONS EXCEPT !.matchThreshold = Lit(9, 10)],
    [DEFAULT_OPTIONS EXCEPT !.matchThreshold = Lit(1, 10)],
    [DEFAULT_OPTIONS EXCEPT !.topChangesLimit = 1] }

\* The calls of diff: every pair of captures under the default options, and
\* the baseline page against every capture under each of the options.
BaseCapture ==
  DiffCapture(Page(<<Button(LeftBox), Label(RightBox, "1a2b3c4d")>>),
              "https://example.com", Lit(16, 9))

\* Two pages of two buttons on a line, b2 a1 b1 a2 from left to right, where
\* the closest pair is a1 b1 and the next closest are a1 b2 and a2 b1.
LineBox(x) == <<x, 0, Lit(1, 2), Lit(1, 2)>>

LineCaptureA ==
  DiffCapture(Page(<<Button(LineBox(Lit(1, 8))), Button(LineBox(Lit(9, 32)))>>),
              "https://example.com", Lit(16, 9))

LineCaptureB ==
  DiffCapture(Page(<<Button(LineBox(Lit(5, 32))), Button(LineBox(0))>>),
              "https://example.com", Lit(16, 9))

DiffCalls ==
  {<<a, b, DEFAULT_OPTIONS>> : a \in DiffCaptures, b \in DiffCaptures}
  \cup {<<BaseCapture, b, o>> : b \in DiffCaptures, o \in DiffOptionArgs}
  \cup {<<LineCaptureA, LineCaptureB, DEFAULT_OPTIONS>>,
         <<LineCaptureB, LineCaptureA, DEFAULT_OPTIONS>>}

(***************************************************************************)
(* The inputs of the hashes and fingerprints: pairs of captures, the       *)
(* second being the first with siblings in another order.                  *)
(***************************************************************************)
MaxSiblings == 3

Card(box, semantic) == UINode("CARD", box, FALSE, semantic, <<>>, <<>>)
At(x, y) == <<x, y, Lit(1, 8), Lit(1, 4)>>

\* The sequences that hold the elements of seq in some order.
RECURSIVE Perms(_)
Perms(seq) ==
  IF Len(seq) <= 1 THEN {seq}
  ELSE UNION {{<<seq[i]>> \o rest :
                 rest \in Perms(SubSeq(seq, 1, i - 1) \o SubSeq(seq, i + 1, Len(seq)))} :
              i \in 1..Len(seq)}

\* Cards side by side on one row, and cards one below the other.
Row(n) == [i \in 1..n |-> Card(At(Lit(i - 1, 4), Lit(1, 8)), "card_" \o ToString(i))]
Column(n) == [i \in 1..n |-> Card(At(Lit(1, 8), Lit(i - 1, 4)), "card_" \o ToString(i))]

\* Children lists whose positions tell the children apart.
SeparatedLists == {Row(n) : n \in 2..MaxSiblings} \cup {Column(n) : n \in 2..MaxSiblings}

\* Children lists with two children at one position.
StackedLists ==
  { <<Button(LeftBox), Link(LeftBox, "")>>,
    <<Button(LeftBox), Label(LeftBox, "1a2b3c4d"), Button(RightBox)>>,
    <<Button(LeftBox), Button(LeftBox)>> }

HashCapture(root) == DiffCapture(root, "https://example.com", Lit(16, 9))

\* A tree with the children list kids, at the root or one level down.
\* The pairs over the children list kids: kids and an order p of them, at the
\* root and one level down.
PairsOver(kids, p) ==
  { <<HashCapture(Page(kids)), HashCapture(Page(p))>>,
    <<HashCapture(Page(<<Section(FullBox, kids), Button(LowBox)>>)),
      HashCapture(Page(<<Button(LowBox), Section(FullBox, p)>>))>> }

PermPairs ==
  UNION {UNION {PairsOver(kids, p) : p \in Perms(kids)} :
         kids \in SeparatedLists \cup StackedLists}

\* A capture against itself with other metadata.
MetaVariants(c) ==
  { [c EXCEPT !.url = "https://other.example/page"],
    [c EXCEPT !.timestamp_ms = 1],
    [c EXCEPT !.compiler.name = "other-compiler"],
    [c EXCEPT !.compiler.version = "9.9.9"],
    [c EXCEPT !.compiler.options_hash = "deadbeef"],
    [c EXCEPT !.url = "", !.timestamp_ms = 0,
              !.compiler = [name |-> "x", version |-> "y", options_hash |-> "z"]],
    [c EXCEPT !.viewport = [w_px |-> 1280, h_px |-> 720, aspect |-> c.viewport.aspect]],
    [c EXCEPT !.viewport.aspect = Lit(4, 3)],
    [c EXCEPT !.url = "https://other.example/page", !.viewport.aspect = Lit(4, 3)] }

MetaRoots ==
  { Page(<<>>), Page(<<Button(LeftBox), Label(RightBox, "1a2b3c4d")>>),
    Section(FullBox, <<Section(FullBox, <<Label(LowBox, "1a2b3c4d")>>)>>) }

MetaPairs ==
  UNION {{<<HashCapture(r), v>> : v \in MetaVariants(HashCapture(r))} : r \in MetaRoots}
  \cup {<<DiffCapture(r, "https://example.com", Lit(33, 256)),
          DiffCapture(r, "https://example.com/narrow", Lit(17, 128))>> : r \in MetaRoots}

\* The node with the name hash name.
Named(node, name) == [node EXCEPT !.name_hash = name]

\* Trees that differ in text hashes and name hashes only.
TextTrees ==
  { Page(<<Button(LeftBox), Label(RightBox, h)>>) : h \in {"1a2b3c4d", "5e6f7a8b", ""} }
  \cup { Page(<<Named(Button(LeftBox), n), Label(RightBox, "1a2b3c4d")>>) :
           n \in {"aaaa0000", "bbbb1111"} }
  \cup { Page(<<Named(Button(LeftBox), "aaaa0000"),
                UINode("TEXT", RightBox, FALSE, "", TextSignal("short", <<>>, 5), <<>>)>>),
         Named(Page(<<Button(LeftBox), Label(RightBox, "5e6f7a8b")>>), "cccc2222") }

TextPairs == {<<HashCapture(a), HashCapture(b)>> : a, b \in TextTrees}

\* The node with one field changed.
Edits(node) ==
  { [node EXCEPT !.role = IF node.role = "LINK" THEN "BUTTON" ELSE "LINK"],
    [node EXCEPT !.interactive = ~node.interactive] }
  \cup { [node EXCEPT !.bbox[i] = FAdd(node.bbox[i], Lit(1, 8))] : i \in 1..4 }
  \cup { [node EXCEPT !.bbox[i] = FAdd(node.bbox[i], Lit(1, 512))] : i \in 1..2 }
  \cup (IF node.text = <<>> THEN {}
         ELSE { [node EXCEPT !.text[1].hash = <<h>>] :
                  h \in {"5e6f7a8b", "1a2b3c4e", "0123456789abcdef0123456789abcdeX"} })

LongLabel(box) == Label(box, "0123456789abcdef0123456789abcdef")

\* A tree against the tree with one node edited: the root, a child, a
\* grandchild.
EditPairs ==
  {<<HashCapture(n), HashCapture(e)>> : n \in {Button(PointBox)}, e \in Edits(Button(PointBox))}
  \cup UNION {{<<HashCapture(Page(<<Button(LeftBox), n>>)), HashCapture(Page(<<Button(LeftBox), e>>))>> :
                 e \in Edits(n)} : n \in {Label(LowBox, "1a2b3c4d"), LongLabel(LowBox)}}
  \cup {<<HashCapture(Page(<<Section(LeftBox, <<LongLabel(PointBox)>>)>>)),
          HashCapture(Page(<<Section(LeftBox, <<e>>)>>))>> : e \in Edits(LongLabel(PointBox))}

\* Leaves to compare: roles, boxes, flags, semantics and text hashes that
\* agree and that differ.
SimNodes ==
  { UINode(role, box, interactive, semantic, text, <<>>) :
      role \in {"BUTTON", "LINK"}, box \in {LeftBox, ShiftedBox, PointBox},
      interactive \in {TRUE}, semantic \in {"", "submit", "cancel"},
      text \in {<<>>, TextSignal("short", <<"1a2b3c4d">>, 5)} }
  \cup { UINode("TEXT", RightBox, FALSE, "", TextSignal("short", h, 5), <<>>) :
           h \in {<<>>, <<"">>, <<"5e6f7a8b">>} }

SimPairs ==
  {<<HashCapture(a), HashCapture(b)>> :
     a \in {n \in SimNodes : n.bbox \in {LeftBox, RightBox}}, b \in SimNodes}

\* Every HashOptions.
AllHashOptions ==
  [includeText : BOOLEAN, includeName : BOOLEAN, includeZ : BOOLEAN]

\* The nodes hashed on their own: leaves with and without each optional
\* field, and two parents.
HashLeaves ==
  { Button(LeftBox),
    Page(<<>>),
    Label(RightBox, "1a2b3c4d"),
    Named(Label(RightBox, "1a2b3c4d"), "5e6f7a8b"),
    Named(Link(LowBox, "login"), "0123456789abcdef0"),
    [Button(PointBox) EXCEPT !.z = <<3>>],
    [Button(PointBox) EXCEPT !.enabled = <<FALSE>>, !.visible = FALSE],
    [Named(Label(TallBox, "0123456789abcdef0123"), "5e6f7a8b") EXCEPT !.z = <<0>>,
                                                                   !.enabled = <<TRUE>>] }

HashNodes ==
  HashLeaves
  \cup { Page(<<Button(LeftBox)>>),
         Section(LeftBox, <<[Button(PointBox) EXCEPT !.z = <<3>>], Label(RightBox, "")>>) }

\* The raw texts given to normalizeText: up to MaxTextLen code units among an
\* invisible one, the byte order mark, spaces of several kinds, NEL, letters
\* of both cases, the dotted capital I, the capital sigma and the upsilon
\* with hook.
MaxTextLen == 3

TextAlphabet == {8203, 65279, 32, 9, 160, 133, 65, 97, 304, 931, 978}

RawTexts == UNION {[1..n -> TextAlphabet] : n \in 0..MaxTextLen}

\* The calls of assignNodeIds: a tree in the heap, with no ids or with ids
\* from an earlier run, the path of the node passed and the parentPath passed.
Stale(node) ==
  [node EXCEPT !.id = "/stale_0_0",
               !.children = [i \in 1..Len(node.children) |->
                               [node.children[i] EXCEPT !.id = "/stale_0_0/old_" \o ToString(i)]]]

IdRoots ==
  { Page(<<>>),
    Page(<<Button(LeftBox), Label(RightBox, "1a2b3c4d")>>),
    Page(<<Button(LeftBox), Button(LeftBox)>>),
    Page(<<Section(LeftBox, <<Button(LeftBox), Label(LowBox, "")>>), Label(RightBox, "1a2b3c4d")>>),
    Section(FullBox, <<Section(FullBox, <<Label(LowBox, "1a2b3c4d")>>)>>),
    Stale(Page(<<Link(ShiftedBox, "login"), Section(WideBox, <<Button(PointBox)>>)>>)) }

RECURSIVE PathsOf(_)
PathsOf(node) ==
  {<<>>} \cup UNION {{<<i>> \o p : p \in PathsOf(node.children[i])} : i \in 1..Len(node.children)}

IdCalls ==
  UNION {{[root |-> r, path |-> p, parentPath |-> pp] : p \in PathsOf(r), pp \in {"", "/page"}}
         : r \in IdRoots}

\* The captures given to renderAscii: a page with two of a few nodes, in
\* either order, whose boxes overlap, and a page with a form and what it holds.
GridWidth == 16
GridHeight == 4

WestBox == <<0, 0, Lit(1, 2), One>>
MidBox == <<Lit(1, 4), 0, Lit(1, 2), One>>
EastBox == <<Lit(1, 2), 0, Lit(1, 2), One>>

Shown(role, box, kids) == UINode(role, box, FALSE, "", <<>>, kids)

AsciiNodes ==
  { Shown("FORM", WestBox, <<>>), Shown("NAV", MidBox, <<>>), Shown("NAV", WestBox, <<>>),
    Shown("MODAL", MidBox, <<>>), Shown("TOAST", WestBox, <<>>), Shown("CARD", EastBox, <<>>),
    Shown("SECTION", FullBox, <<>>), Button(MidBox), Link(WestBox, "login"),
    Label(WestBox, "1a2b3c4d") }

AsciiRoots ==
  {Page(<<a, b>>) : a \in AsciiNodes, b \in AsciiNodes}
  \cup {Page(<<Shown("FORM", WestBox, <<Button(WestBox), Label(MidBox, "1a2b3c4d")>>)>>)}

AsciiOptions ==
  { [width |-> GridWidth, height |-> GridHeight, showRoles |-> DEFAULT_SHOW_ROLES,
     showSemantics |-> TRUE, showTextLen |-> TRUE, borderStyle |-> "ascii"],
    [width |-> GridWidth, height |-> GridHeight,
     showRoles |-> DEFAULT_SHOW_ROLES \cup {"PAGE", "SECTION", "TEXT"},
     showSemantics |-> FALSE, showTextLen |-> TRUE, borderStyle |-> "ascii"] }

\* The texts given to the digest.
HashTexts ==
  { "", " ", "a", "b", "x", "hello", "world", "test", "anything", "hello world",
    "a very long input string with lots of characters",
    "r:BUTTON|b:0.000,0.000,0.500,0.500|i:1|v:1", "~~~~~~~~", "0a9cede7|a:1.78",
    "h", "he", "hel", "hell" }

HashPairs == PermPairs \cup MetaPairs \cup TextPairs \cup EditPairs \cup SimPairs

(***************************************************************************)
(* State.  A call of parseCapture(json, limits), of validateCapture(data,  *)
(* limits) or of diff(captureA, captureB, options).  The walk of           *)
(* validateNode is one step per invocation, with the loops over children   *)
(* that are under way on a stack; the greedy loop of findMatches is one    *)
(* step per candidate.                                                     *)
(***************************************************************************)
VARIABLES
  mode,       \* the function called: "parse", "validate" or "diff"
  capture,    \* the value the caller holds (undefined for a text of its own)
  json,       \* the text given to parseCapture
  limitsArg,  \* the limits argument
  pc,         \* where the call is
  data,       \* the value under validation
  limits,     \* resolvedLimits
  issues,     \* the issues array
  issueAt,    \* for each issue, the node whose validation pushed it
  nodeCount,  \* state.nodeCount
  call,       \* the invocation of validateNode about to run
  stack,      \* the loops over children under way, innermost last
  result,     \* what the call returned or threw
  captureA,   \* the arguments of diff
  captureB,
  options,    \* opts, the options over the defaults
  flatA,      \* flattenTree(captureA.root)
  flatB,      \* flattenTree(captureB.root)
  candidates, \* the sorted candidates of findMatches
  cursor,     \* the candidate the greedy loop is at
  usedA,      \* the indices matched so far
  usedB,
  matches,    \* the matches so far
  changes,    \* the changes diff collected
  tree,       \* the nodes assignNodeIds and renderNode walk, as the heap holds them
  pending,    \* the calls of the walk still to run, the next one first
  visited,    \* the paths of the nodes walked so far, in the order of the walk
  grid,       \* AsciiGrid.cells
  writer      \* for each cell, the ROLE_PRIORITY of the node that wrote it last

vars ==
  <<mode, capture, json, limitsArg, pc, data, limits, issues, issueAt, nodeCount,
    call, stack, result, captureA, captureB, options, flatA, flatB, candidates, cursor,
    usedA, usedB, matches, changes, tree, pending, visited, grid,
    writer>>

walkVars == <<tree, pending, visited, grid, writer>>

parseVars ==
  <<capture, json, limitsArg, data, limits, issues, issueAt, nodeCount, call, stack>>

diffVars ==
  <<captureA, captureB, options, flatA, flatB, candidates, cursor, usedA, usedB, matches,
    changes>>

NoCapture == [root |-> <<>>]

WalkIdle ==
  /\ tree = <<>>
  /\ pending = <<>>
  /\ visited = <<>>
  /\ grid = <<>>
  /\ writer = <<>>

DiffIdle ==
  /\ captureA = NoCapture
  /\ captureB = NoCapture
  /\ options = DEFAULT_OPTIONS
  /\ flatA = <<>>
  /\ flatB = <<>>
  /\ candidates = <<>>
  /\ cursor = 0
  /\ usedA = {}
  /\ usedB = {}
  /\ matches = <<>>
  /\ changes = <<>>

NoCall == [active |-> FALSE]
NodeCall(node, path, depth, idx) ==
  [active |-> TRUE, node |-> node, path |-> path, depth |-> depth, idx |-> idx]
TopLevel == [top |-> TRUE, idx |-> <<>>]
AtNode(idx) == [top |-> FALSE, idx |-> idx]

Init ==
  /\ limitsArg \in LimitArgs
  /\ \/ /\ mode = "parse"
        /\ capture \in Values
        /\ json = ""
        /\ pc = "serialize"
        /\ data = Undefined
     \/ /\ mode = "parse"
        /\ capture = Undefined
        /\ json \in MalformedTexts
        /\ pc = "parse"
        /\ data = Undefined
     \/ /\ mode = "validate"
        /\ capture \in Values \cup {Undefined}
        /\ json = ""
        /\ pc = "validate"
        /\ data = capture
  /\ limits = DEFAULT_LIMITS
  /\ issues = <<>>
  /\ issueAt = <<>>
  /\ nodeCount = 0
  /\ call = NoCall
  /\ stack = <<>>
  /\ result = [kind |-> "none"]
  /\ DiffIdle
  /\ WalkIdle

\* The caller's JSON.stringify(capture).
Serialize ==
  /\ pc = "serialize"
  /\ json' = JsonStringify(capture)
  /\ pc' = "parse"
  /\ UNCHANGED <<mode, capture, limitsArg, data, limits, issues, issueAt, nodeCount,
                 call, stack, result>>
  /\ UNCHANGED diffVars
  /\ UNCHANGED walkVars

\* parseCapture, step 1: JSON.parse, a SyntaxError becoming WS_INVALID_JSON.
ParseJson ==
  /\ pc = "parse"
  /\ LET r == JsonParse(json)
     IN IF r.ok
          THEN /\ data' = r.v
               /\ pc' = "validate"
               /\ result' = result
          ELSE /\ data' = data
               /\ pc' = "done"
               /\ result' = InvalidJsonError
  /\ UNCHANGED <<mode, capture, json, limitsArg, limits, issues, issueAt, nodeCount,
                 call, stack>>
  /\ UNCHANGED diffVars
  /\ UNCHANGED walkVars

\* validateCapture up to its call of validateNode on the root.
ValidateCaptureTop ==
  /\ pc = "validate"
  /\ LET top == ValidateTop(data)
     IN /\ issues' = top.issues
        /\ issueAt' = [i \in 1..Len(top.issues) |-> TopLevel]
        /\ call' = IF top.walk /\ ~top.threw
                     THEN NodeCall(Get(data, "root"), "root", 0, <<>>) ELSE NoCall
        /\ pc' = IF top.threw THEN "threw" ELSE IF top.walk THEN "walk" ELSE "validated"
  /\ limits' = ResolveLimits(limitsArg)
  /\ UNCHANGED <<mode, capture, json, limitsArg, data, nodeCount, stack, result>>
  /\ UNCHANGED diffVars
  /\ UNCHANGED walkVars

\* After a call made from the loop on top of the stack returned: the loops
\* that end (issues.length > 100, or no child left) and the next call.
RECURSIVE Unwind(_, _)
Unwind(frames, nIssues) ==
  IF frames = <<>> THEN [stack |-> <<>>, call |-> NoCall]
  ELSE LET f == frames[Len(frames)]
           rest == SubSeq(frames, 1, Len(frames) - 1)
       IN IF nIssues > IssueCap THEN Unwind(rest, nIssues)
          ELSE IF f.i + 1 < Len(f.kids)
            THEN [stack |-> Append(rest, [f EXCEPT !.i = f.i + 1]),
                  call |-> NodeCall(f.kids[f.i + 2],
                                    ChildPath(f.path, f.i + 1),
                                    f.depth + 1, Append(f.idx, f.i + 1))]
          ELSE Unwind(rest, nIssues)

\* One invocation of validateNode, up to its first call on a child or, when it
\* makes none, up to the next call of a loop that is under way.
ValidateNodeCall ==
  /\ pc = "walk"
  /\ call.active
  /\ LET r == ValidateNode(call.node, call.path, call.depth, nodeCount, limits)
         all == issues \o r.issues
         next == IF Len(r.kids) > 0
                   THEN [stack |-> Append(stack, [kids |-> r.kids, path |-> call.path,
                                                  depth |-> call.depth, idx |-> call.idx,
                                                  i |-> 0]),
                         call |-> NodeCall(r.kids[1], ChildPath(call.path, 0),
                                           call.depth + 1, Append(call.idx, 0))]
                   ELSE Unwind(stack, Len(all))
     IN /\ nodeCount' = nodeCount + 1
        /\ issues' = all
        /\ issueAt' = issueAt \o [i \in 1..Len(r.issues) |-> AtNode(call.idx)]
        /\ stack' = IF r.threw THEN stack ELSE next.stack
        /\ call' = IF r.threw THEN NoCall ELSE next.call
        /\ pc' = IF r.threw THEN "threw"
                 ELSE IF next.call.active THEN "walk" ELSE "validated"
  /\ UNCHANGED <<mode, capture, json, limitsArg, data, limits, result>>
  /\ UNCHANGED diffVars
  /\ UNCHANGED walkVars

\* validateCapture returns the issues to its caller.
ValidateCaptureReturn ==
  /\ pc = "validated"
  /\ mode = "validate"
  /\ result' = [kind |-> "issues", issues |-> issues]
  /\ pc' = "done"
  /\ UNCHANGED <<mode, capture, json, limitsArg, data, limits, issues, issueAt,
                 nodeCount, call, stack>>
  /\ UNCHANGED diffVars
  /\ UNCHANGED walkVars

\* parseCapture, step 2: throw by the issues, or return the value.
ParseCaptureClassify ==
  /\ pc = "validated"
  /\ mode = "parse"
  /\ result' = Classify(issues, data)
  /\ pc' = "done"
  /\ UNCHANGED <<mode, capture, json, limitsArg, data, limits, issues, issueAt,
                 nodeCount, call, stack>>
  /\ UNCHANGED diffVars
  /\ UNCHANGED walkVars

Next ==
  \/ Serialize
  \/ ParseJson
  \/ ValidateCaptureTop
  \/ ValidateNodeCall
  \/ ValidateCaptureReturn
  \/ ParseCaptureClassify

Spec == Init /\ [][Next]_vars

(***************************************************************************)
(* diff(captureA, captureB, options)                                       *)
(***************************************************************************)
InitDiff ==
  /\ mode = "diff"
  /\ pc = "flatten"
  /\ \E c \in DiffCalls :
       /\ captureA = c[1]
       /\ captureB = c[2]
       /\ options = c[3]
  /\ flatA = <<>>
  /\ flatB = <<>>
  /\ candidates = <<>>
  /\ cursor = 0
  /\ usedA = {}
  /\ usedB = {}
  /\ matches = <<>>
  /\ changes = <<>>
  /\ result = [kind |-> "none"]
  /\ capture = Undefined
  /\ json = ""
  /\ limitsArg = <<>>
  /\ data = Undefined
  /\ limits = DEFAULT_LIMITS
  /\ issues = <<>>
  /\ issueAt = <<>>
  /\ nodeCount = 0
  /\ call = NoCall
  /\ stack = <<>>
  /\ WalkIdle

\* Flatten both trees.
Flatten ==
  /\ pc = "flatten"
  /\ flatA' = flattenTree(captureA.root, 0, "")
  /\ flatB' = flattenTree(captureB.root, 0, "")
  /\ pc' = "candidates"
  /\ UNCHANGED <<mode, result, captureA, captureB, options, candidates, cursor, usedA,
                 usedB, matches, changes>>
  /\ UNCHANGED parseVars
  /\ UNCHANGED walkVars

\* findMatches: the similarity matrix and its sort.
FindCandidates ==
  /\ pc = "candidates"
  /\ candidates' = SortBySim(Candidates(flatA, flatB, options))
  /\ cursor' = 1
  /\ pc' = "greedy"
  /\ UNCHANGED <<mode, result, captureA, captureB, options, flatA, flatB, usedA, usedB,
                 matches, changes>>
  /\ UNCHANGED parseVars
  /\ UNCHANGED walkVars

\* findMatches: one turn of the greedy loop.
GreedyStep ==
  /\ pc = "greedy"
  /\ cursor <= Len(candidates)
  /\ LET c == candidates[cursor]
     IN IF Taken(c, usedA, usedB)
          THEN UNCHANGED <<usedA, usedB, matches>>
          ELSE /\ matches' = Append(matches, [nodeA |-> flatA[c.i + 1], nodeB |-> flatB[c.j + 1],
                                              similarity |-> c.sim, i |-> c.i, j |-> c.j])
               /\ usedA' = usedA \cup {c.i}
               /\ usedB' = usedB \cup {c.j}
  /\ cursor' = cursor + 1
  /\ UNCHANGED <<mode, pc, result, captureA, captureB, options, flatA, flatB, candidates,
                 changes>>
  /\ UNCHANGED parseVars
  /\ UNCHANGED walkVars

\* diff collects the changes of the matched pairs, the added and the removed.
CollectChanges ==
  /\ pc = "greedy"
  /\ cursor > Len(candidates)
  /\ changes' = AllChanges(matches, flatA, flatB, usedA, usedB, options)
  /\ pc' = "summary"
  /\ UNCHANGED <<mode, result, captureA, captureB, options, flatA, flatB, candidates,
                 cursor, usedA, usedB, matches>>
  /\ UNCHANGED parseVars
  /\ UNCHANGED walkVars

\* diff counts, ranks and returns.
Summarize ==
  /\ pc = "summary"
  /\ result' = DiffResult(captureA, captureB, changes, options)
  /\ pc' = "done"
  /\ UNCHANGED <<mode, captureA, captureB, options, flatA, flatB, candidates, cursor,
                 usedA, usedB, matches, changes>>
  /\ UNCHANGED parseVars
  /\ UNCHANGED walkVars

NextDiff ==
  \/ Flatten
  \/ FindCandidates
  \/ GreedyStep
  \/ CollectChanges
  \/ Summarize

SpecDiff == InitDiff /\ [][NextDiff]_vars

(***************************************************************************)
(* hashNodeDeep, fingerprintCapture, fingerprintLayout and nodeSimilarity  *)
(* on the captures captureA and captureB, one call after the other.        *)
(***************************************************************************)
NoHashes ==
  [kind |-> "hashes", deepA |-> "", deepB |-> "", captureA |-> "", captureB |-> "",
   layoutA |-> "", layoutB |-> "", similarity |-> 0]

InitHash ==
  /\ \/ /\ mode = "hash"
        /\ pc = "deep"
        /\ \E p \in HashPairs :
             /\ captureA = p[1]
             /\ captureB = p[2]
        /\ json = ""
        /\ result = NoHashes
        /\ options = DEFAULT_OPTIONS
     \/ /\ mode = "hashSync"
        /\ pc = "digest"
        /\ captureA = NoCapture
        /\ captureB = NoCapture
        /\ json \in HashTexts
        /\ result = [kind |-> "none"]
        /\ options = DEFAULT_OPTIONS
     \/ /\ mode = "normalizeText"
        /\ pc = "normalize"
        /\ captureA = NoCapture
        /\ captureB = NoCapture
        /\ json \in RawTexts
        /\ result = [kind |-> "none"]
        /\ options = DEFAULT_OPTIONS
     \/ /\ mode = "hashNode"
        /\ pc = "node"
        /\ \E n \in HashNodes : captureA = HashCapture(n)
        /\ captureB = NoCapture
        /\ options \in AllHashOptions
        /\ json = ""
        /\ result = [kind |-> "none"]
  /\ flatA = <<>>
  /\ flatB = <<>>
  /\ candidates = <<>>
  /\ cursor = 0
  /\ usedA = {}
  /\ usedB = {}
  /\ matches = <<>>
  /\ changes = <<>>
  /\ capture = Undefined
  /\ limitsArg = <<>>
  /\ data = Undefined
  /\ limits = DEFAULT_LIMITS
  /\ issues = <<>>
  /\ issueAt = <<>>
  /\ nodeCount = 0
  /\ call = NoCall
  /\ stack = <<>>
  /\ WalkIdle

\* hashNodeDeep(root) of each capture.
HashNodeDeep ==
  /\ pc = "deep"
  /\ result' = [result EXCEPT !.deepA = hashNodeDeep(captureA.root, DEFAULT_HASH_OPTIONS),
                              !.deepB = hashNodeDeep(captureB.root, DEFAULT_HASH_OPTIONS)]
  /\ pc' = "capture"
  /\ UNCHANGED <<mode>>
  /\ UNCHANGED diffVars
  /\ UNCHANGED parseVars
  /\ UNCHANGED walkVars

\* fingerprintCapture of each capture.
FingerprintCapture ==
  /\ pc = "capture"
  /\ result' = [result EXCEPT !.captureA = fingerprintCapture(captureA),
                              !.captureB = fingerprintCapture(captureB)]
  /\ pc' = "layout"
  /\ UNCHANGED <<mode>>
  /\ UNCHANGED diffVars
  /\ UNCHANGED parseVars
  /\ UNCHANGED walkVars

\* fingerprintLayout of each capture.
FingerprintLayout ==
  /\ pc = "layout"
  /\ result' = [result EXCEPT !.layoutA = fingerprintLayout(captureA),
                              !.layoutB = fingerprintLayout(captureB)]
  /\ pc' = "similarity"
  /\ UNCHANGED <<mode>>
  /\ UNCHANGED diffVars
  /\ UNCHANGED parseVars
  /\ UNCHANGED walkVars

\* nodeSimilarity of the two roots.
NodeSimilarity ==
  /\ pc = "similarity"
  /\ result' = [result EXCEPT !.similarity = nodeSimilarity(captureA.root, captureB.root)]
  /\ pc' = "done"
  /\ UNCHANGED <<mode>>
  /\ UNCHANGED diffVars
  /\ UNCHANGED parseVars
  /\ UNCHANGED walkVars

\* sha256Sync(text), the digest of a text.
HashSync ==
  /\ pc = "digest"
  /\ result' = [kind |-> "digest", hex |-> sha256Sync(json)]
  /\ pc' = "done"
  /\ UNCHANGED <<mode>>
  /\ UNCHANGED diffVars
  /\ UNCHANGED parseVars
  /\ UNCHANGED walkVars

\* hashNodeShallow(node, options) and hashNodeDeep(node, options) of one node.
HashNode ==
  /\ pc = "node"
  /\ result' = [kind |-> "node",
                shallow |-> hashNodeShallow(captureA.root, options),
                deep |-> hashNodeDeep(captureA.root, options)]
  /\ pc' = "done"
  /\ UNCHANGED <<mode>>
  /\ UNCHANGED diffVars
  /\ UNCHANGED parseVars
  /\ UNCHANGED walkVars

\* normalizeText(text)
NormalizeText ==
  /\ pc = "normalize"
  /\ result' = [kind |-> "text", once |-> normalizeText(json)]
  /\ pc' = "again"
  /\ UNCHANGED <<mode>>
  /\ UNCHANGED diffVars
  /\ UNCHANGED parseVars
  /\ UNCHANGED walkVars

\* normalizeText of what normalizeText returned.
NormalizeAgain ==
  /\ pc = "again"
  /\ result' = [kind |-> "text", once |-> result.once, twice |-> normalizeText(result.once)]
  /\ pc' = "done"
  /\ UNCHANGED <<mode>>
  /\ UNCHANGED diffVars
  /\ UNCHANGED parseVars
  /\ UNCHANGED walkVars

NextHash ==
  \/ NormalizeText
  \/ NormalizeAgain
  \/ HashSync
  \/ HashNode
  \/ HashNodeDeep
  \/ FingerprintCapture
  \/ FingerprintLayout
  \/ NodeSimilarity

SpecHash == InitHash /\ [][NextHash]_vars

(***************************************************************************)
(* assignNodeIds(node, parentPath), called twice on a node of a tree, with *)
(* the hashes of the tree taken before and after.                          *)
(***************************************************************************)
\* The hashes of every node of the tree and the fingerprints of the capture.
HashesOf(root) ==
  [shallow |-> [p \in PathsOf(root) |-> hashNodeShallow(NodeAt(root, p), DEFAULT_HASH_OPTIONS)],
   deep |-> [p \in PathsOf(root) |-> hashNodeDeep(NodeAt(root, p), DEFAULT_HASH_OPTIONS)],
   layout |-> [p \in PathsOf(root) |-> hashNodeDeep(NodeAt(root, p), LayoutHashOptions)],
   capture |-> fingerprintCapture(HashCapture(root)),
   fingerprintLayout |-> fingerprintLayout(HashCapture(root))]

InitIds ==
  /\ mode = "assignNodeIds"
  /\ pc = "before"
  /\ \E c \in IdCalls :
       /\ tree = c.root
       /\ captureA = HashCapture(c.root)
       /\ pending = <<[path |-> c.path, parentPath |-> c.parentPath]>>
  /\ visited = <<>>
  /\ grid = <<>>
  /\ writer = <<>>
  /\ result = [kind |-> "none"]
  /\ captureB = NoCapture
  /\ options = DEFAULT_OPTIONS
  /\ flatA = <<>>
  /\ flatB = <<>>
  /\ candidates = <<>>
  /\ cursor = 0
  /\ usedA = {}
  /\ usedB = {}
  /\ matches = <<>>
  /\ changes = <<>>
  /\ capture = Undefined
  /\ json = ""
  /\ limitsArg = <<>>
  /\ data = Undefined
  /\ limits = DEFAULT_LIMITS
  /\ issues = <<>>
  /\ issueAt = <<>>
  /\ nodeCount = 0
  /\ call = NoCall
  /\ stack = <<>>

\* The caller takes the hashes of the tree before the first call.
HashBefore ==
  /\ pc = "before"
  /\ result' = [kind |-> "ids", first |-> pending[1], before |-> HashesOf(tree)]
  /\ pc' = "assign"
  /\ UNCHANGED <<mode, tree, pending, visited, grid, writer>>
  /\ UNCHANGED diffVars
  /\ UNCHANGED parseVars

\* One call of assignNodeIds: it writes node.id, and its loop makes the calls
\* for the children, with node.id, before anything else runs.
AssignNodeIds ==
  /\ pc \in {"assign", "again"}
  /\ pending # <<>>
  /\ LET c == Head(pending)
         node == NodeAt(tree, c.path)
         id == generateNodeId(node, c.parentPath)
     IN /\ tree' = WriteId(tree, c.path, id)
        /\ pending' = [i \in 1..Len(node.children) |->
                         [path |-> Append(c.path, i), parentPath |-> id]]
                      \o Tail(pending)
        /\ visited' = Append(visited, c.path)
  /\ UNCHANGED <<mode, pc, result, grid, writer>>
  /\ UNCHANGED diffVars
  /\ UNCHANGED parseVars

\* The first call returned: the caller takes the hashes again and calls
\* assignNodeIds a second time with the same arguments.
HashAfter ==
  /\ pc = "assign"
  /\ pending = <<>>
  /\ result' = [kind |-> "ids", first |-> result.first, before |-> result.before,
                after |-> HashesOf(tree), once |-> tree, walk |-> visited]
  /\ pending' = <<result.first>>
  /\ visited' = <<>>
  /\ pc' = "again"
  /\ UNCHANGED <<mode, tree, grid, writer>>
  /\ UNCHANGED diffVars
  /\ UNCHANGED parseVars

\* The second call returned.
AssignedAgain ==
  /\ pc = "again"
  /\ pending = <<>>
  /\ pc' = "done"
  /\ UNCHANGED <<mode, result, tree, pending, visited, grid, writer>>
  /\ UNCHANGED diffVars
  /\ UNCHANGED parseVars

NextIds ==
  \/ HashBefore
  \/ AssignNodeIds
  \/ HashAfter
  \/ AssignedAgain

SpecIds == InitIds /\ [][NextIds]_vars

(***************************************************************************)
(* renderAscii(capture, options), one call of renderNode or of grid.set at *)
(* a time.                                                                 *)
(***************************************************************************)
InitAscii ==
  /\ mode = "renderAscii"
  /\ pc = "render"
  /\ \E r \in AsciiRoots :
       /\ captureA = HashCapture(r)
       /\ tree = r
       /\ pending = <<[kind |-> "renderNode", node |-> r]>>
  /\ options \in AsciiOptions
  /\ grid = BlankCells(options.width, options.height)
  /\ writer = [y \in 0..(options.height - 1) |-> [x \in 0..(options.width - 1) |-> -1]]
  /\ visited = <<>>
  /\ result = [kind |-> "none"]
  /\ captureB = NoCapture
  /\ flatA = <<>>
  /\ flatB = <<>>
  /\ candidates = <<>>
  /\ cursor = 0
  /\ usedA = {}
  /\ usedB = {}
  /\ matches = <<>>
  /\ changes = <<>>
  /\ capture = Undefined
  /\ json = ""
  /\ limitsArg = <<>>
  /\ data = Undefined
  /\ limits = DEFAULT_LIMITS
  /\ issues = <<>>
  /\ issueAt = <<>>
  /\ nodeCount = 0
  /\ call = NoCall
  /\ stack = <<>>

\* renderNode(grid, node, options): the calls of set for the node, then the
\* calls of renderNode for its children.
RenderNode ==
  /\ pc = "render"
  /\ pending # <<>>
  /\ Head(pending).kind = "renderNode"
  /\ LET node == Head(pending).node
         kids == [i \in 1..Len(node.children) |->
                    [kind |-> "renderNode", node |-> node.children[i]]]
     IN pending' = (IF shouldRender(node, options.showRoles)
                      THEN NodeWrites(node, options) ELSE <<>>)
                   \o kids \o Tail(pending)
  /\ visited' = Append(visited, Head(pending).node.role)
  /\ UNCHANGED <<mode, pc, result, tree, grid, writer>>
  /\ UNCHANGED diffVars
  /\ UNCHANGED parseVars

\* AsciiGrid.set(x, y, char, priority)
GridSet ==
  /\ pc = "render"
  /\ pending # <<>>
  /\ Head(pending).kind = "set"
  /\ LET c == Head(pending)
     IN IF c.x < 0 \/ c.x >= options.width \/ c.y < 0 \/ c.y >= options.height
          THEN UNCHANGED <<grid, writer>>
          ELSE IF c.priority >= grid[c.y][c.x].priority
            THEN /\ grid' = [grid EXCEPT ![c.y][c.x] = [char |-> c.char, priority |-> c.priority]]
                 /\ writer' = [writer EXCEPT ![c.y][c.x] = c.role]
            ELSE UNCHANGED <<grid, writer>>
  /\ pending' = Tail(pending)
  /\ UNCHANGED <<mode, pc, result, tree, visited>>
  /\ UNCHANGED diffVars
  /\ UNCHANGED parseVars

\* grid.toString(): the rows of the grid.
GridToString ==
  /\ pc = "render"
  /\ pending = <<>>
  /\ result' = [kind |-> "ascii",
                rows |-> [y \in 0..(options.height - 1) |->
                            JoinStr([x \in 1..options.width |-> grid[y][x - 1].char], "")]]
  /\ pc' = "done"
  /\ UNCHANGED <<mode, tree, pending, visited, grid, writer>>
  /\ UNCHANGED diffVars
  /\ UNCHANGED parseVars

NextAscii ==
  \/ RenderNode
  \/ GridSet
  \/ GridToString

SpecAscii == InitAscii /\ [][NextAscii]_vars

(***************************************************************************)
(* What a capture is, read off the value itself (types.ts and the schema   *)
(* the validator enforces), for stating the properties.                    *)
(***************************************************************************)
KidsOf(n) ==
  IF n.t = "object" /\ Get(n, "children").t = "array" THEN Get(n, "children").a ELSE <<>>

RECURSIVE CountNodes(_)
CountNodes(n) ==
  LET RECURSIVE Sum(_)
      Sum(kids) == IF kids = <<>> THEN 0 ELSE CountNodes(Head(kids)) + Sum(Tail(kids))
  IN 1 + Sum(KidsOf(n))

RECURSIVE TreeDepth(_)
TreeDepth(n) ==
  IF KidsOf(n) = <<>> THEN 0
  ELSE 1 + MaxOf({TreeDepth(KidsOf(n)[i]) : i \in 1..Len(KidsOf(n))})

RECURSIVE ValidNode(_)
ValidNode(n) ==
  /\ n.t = "object"
  /\ Get(n, "role").t = "string"
  /\ \E i \in 1..Len(VALID_ROLES) : VALID_ROLES[i] = Get(n, "role").s
  /\ Get(n, "bbox").t = "array"
  /\ Len(Get(n, "bbox").a) = 4
  /\ \A i \in 1..4 : Get(n, "bbox").a[i].t = "number"
  /\ Get(n, "interactive").t = "boolean"
  /\ Get(n, "visible").t = "boolean"
  /\ Get(n, "id").t = "string"
  /\ Get(n, "text").t \in {"undefined", "object"}
  /\ Get(n, "text").t = "object" => Get(Get(n, "text"), "kind").t = "string"
  /\ Get(n, "children").t \in {"undefined", "array"}
  /\ \A i \in 1..Len(KidsOf(n)) : ValidNode(KidsOf(n)[i])

\* Every check but the check of the version passes.
ValidBody(c) ==
  /\ c.t = "object"
  /\ Get(c, "url").t = "string"
  /\ Get(c, "timestamp_ms").t = "number"
  /\ Get(c, "viewport").t = "object"
  /\ \A k \in {"w_px", "h_px", "aspect"} : Get(Get(c, "viewport"), k).t = "number"
  /\ Get(c, "compiler").t = "object"
  /\ \A k \in {"name", "version", "options_hash"} : Get(Get(c, "compiler"), k).t = "string"
  /\ ValidNode(Get(c, "root"))

SchemaValid(c) == ValidBody(c) /\ Get(c, "version") = JStr("0.1")

\* The root is a value validateNode is called on.
HasTree(c) == c.t = "object" /\ Get(c, "root").t \notin {"undefined", "null"}

OverLimits(c, lim) ==
  /\ HasTree(c)
  /\ \/ CountNodes(Get(c, "root")) > lim.maxNodes
     \/ TreeDepth(Get(c, "root")) > lim.maxDepth

\* The path of the node reached from the root through the child indices idx.
RECURSIVE NodePath(_)
NodePath(idx) ==
  IF idx = <<>> THEN "root"
  ELSE NodePath(SubSeq(idx, 1, Len(idx) - 1)) \o ".children["
       \o ToString(idx[Len(idx)]) \o "]"

NodeFields ==
  { "", ".role", ".bbox", ".bbox[0]", ".bbox[1]", ".bbox[2]", ".bbox[3]", ".interactive",
    ".visible", ".id", ".text", ".text.kind", ".children" }

TopFields ==
  { "", "version", "url", "timestamp_ms", "viewport", "viewport.w_px", "viewport.h_px",
    "viewport.aspect", "compiler", "compiler.name", "compiler.version",
    "compiler.options_hash", "root" }

Parsed == mode = "parse" /\ pc = "done" /\ result # InvalidJsonError
Failed(code) == result.kind = "error" /\ result.code = code
VersionOf(c) == IF c.t = "object" THEN Get(c, "version") ELSE Undefined
BadVersionString(c) == VersionOf(c).t = "string" /\ VersionOf(c).s # "0.1"

\* The issue reports a limit that validateNode found exceeded.
IsLimitIssue(i) ==
  \/ i.message = "Node count exceeds maxNodes limit (" \o ToString(limits.maxNodes) \o ")"
  \/ i.message = "Tree depth exceeds maxDepth limit (" \o ToString(limits.maxDepth) \o ")"
HasLimitIssue == \E i \in 1..Len(issues) : IsLimitIssue(issues[i])

\* The issue rejects a version that is present.
IsVersionIssue(i) == i.path = "version" /\ i.expected = "\"0.1\"" /\ i.received # "undefined"
HasVersionIssue == \E i \in 1..Len(issues) : IsVersionIssue(issues[i])

\* The value without the entries of ExtraEntries, at every level.
RECURSIVE WithoutExtras(_)
WithoutExtras(v) ==
  IF v.t = "object"
    THEN LET kept == SelectSeq(v.o, LAMBDA e : e \notin ExtraEntries)
         IN JObj([i \in 1..Len(kept) |-> E(kept[i].k, WithoutExtras(kept[i].v))])
  ELSE IF v.t = "array" THEN JArr([i \in 1..Len(v.a) |-> WithoutExtras(v.a[i])])
  ELSE v

(***************************************************************************)
(* C1.  For every valid capture c and the default options, diff(c, c) has  *)
(* identical = true, no change, the eight counts at 0, and both            *)
(* fingerprint flags true.                                                 *)
(***************************************************************************)
C1_SelfDiffIdentical ==
  (mode = "diff" /\ pc = "done" /\ captureA = captureB /\ options = DEFAULT_OPTIONS) =>
    /\ result.summary.identical
    /\ result.changes = <<>>
    /\ \A t \in ChangeTypes : result.summary.counts[t] = 0
    /\ result.summary.fingerprintsMatch
    /\ result.summary.layoutFingerprintsMatch

C4_UnsupportedVersion ==
  (Parsed /\ BadVersionString(data)) =>
    /\ Failed("WS_UNSUPPORTED_VERSION")
    /\ result.received = "\"" \o VersionOf(data).s \o "\""

C4_Witness ==
  /\ Parsed
  /\ VersionOf(data) = JStr("99.0")
  /\ Len(issues) > 1
  /\ Failed("WS_UNSUPPORTED_VERSION")
  /\ result.received = "\"99.0\""

(***************************************************************************)
(* C5.  parseCapture fails with WS_UNSUPPORTED_VERSION only when the       *)
(* version of the parsed value is a string that is not supported; never    *)
(* for a version that is missing or of another type.                       *)
(***************************************************************************)
C5_OnlyStringVersions ==
  (Parsed /\ Failed("WS_UNSUPPORTED_VERSION")) => BadVersionString(data)

(***************************************************************************)
(* C6.  A capture that is otherwise schema-valid, with version "0.1",      *)
(* whose node count exceeds maxNodes or whose depth exceeds maxDepth fails *)
(* with WS_LIMIT_EXCEEDED; every capture parseCapture returns is within    *)
(* both limits.                                                            *)
(***************************************************************************)
C6_LimitExceeded ==
  Parsed =>
    /\ (SchemaValid(data) /\ OverLimits(data, ResolveLimits(limitsArg))) =>
         Failed("WS_LIMIT_EXCEEDED")
    /\ result.kind = "ok" =>
         /\ CountNodes(Get(result.value, "root")) <= ResolveLimits(limitsArg).maxNodes
         /\ TreeDepth(Get(result.value, "root")) <= ResolveLimits(limitsArg).maxDepth

C6_Witness ==
  /\ Parsed
  /\ SchemaValid(data)
  /\ TreeDepth(Get(data, "root")) > ResolveLimits(limitsArg).maxDepth
  /\ CountNodes(Get(data, "root")) <= ResolveLimits(limitsArg).maxNodes
  /\ Failed("WS_LIMIT_EXCEEDED")

(***************************************************************************)
(* C7.  parseCapture fails with WS_LIMIT_EXCEEDED only when the node count *)
(* exceeds maxNodes or the depth exceeds maxDepth, whatever strings the    *)
(* fields of the input hold.                                               *)
(***************************************************************************)
C7_OnlyRealLimits ==
  (Parsed /\ Failed("WS_LIMIT_EXCEEDED")) => OverLimits(data, ResolveLimits(limitsArg))

(***************************************************************************)
(* C8.  Once the issue list holds more than 100 entries, no further node   *)
(* is validated and no further issue is appended.                          *)
(***************************************************************************)
C8_StopsAtCap ==
  [][Len(issues) > IssueCap => (issues' = issues /\ nodeCount' = nodeCount)]_vars

(***************************************************************************)
(* C9.  validateCapture never fails: no property read raises, whatever the *)
(* input value and the limits, and the list it returns is empty exactly    *)
(* when every top-level and per-node check passes within the limits.       *)
(***************************************************************************)
C9_NeverThrows ==
  /\ pc # "threw"
  /\ (mode = "validate" /\ pc = "done") =>
       /\ result.kind = "issues"
       /\ result.issues = issues
       /\ result.issues = <<>> <=>
            (SchemaValid(data) /\ ~OverLimits(data, ResolveLimits(limitsArg)))

C9_Witness ==
  /\ mode = "validate"
  /\ pc = "done"
  /\ \E i \in 1..Len(result.issues) :
       /\ result.issues[i].path = "root.children[1]"
       /\ result.issues[i].received = "null"

(***************************************************************************)
(* C10.  Every issue reported for a node carries the path of that node,    *)
(* root.children[i1]...children[ik] for the node at child indices          *)
(* i1,...,ik, followed by the offending field (nothing for an issue about  *)
(* the node as a whole); a top-level issue carries the bare field name.    *)
(***************************************************************************)
C10_IssuePaths ==
  /\ Len(issueAt) = Len(issues)
  /\ \A i \in 1..Len(issues) :
       IF issueAt[i].top
         THEN issues[i].path \in TopFields
         ELSE \E f \in NodeFields : issues[i].path = NodePath(issueAt[i].idx) \o f

C10_Witness ==
  /\ pc = "done"
  /\ \E i \in 1..Len(issues) :
       /\ issueAt[i] = AtNode(<<0, 0, 0>>)
       /\ issues[i].path = "root.children[0].children[0].children[0].role"
  /\ \E i \in 1..Len(issues) : issueAt[i].top /\ issues[i].path = "version"

(***************************************************************************)
(* C11.  Unknown keys are tolerated at every level: a capture that has     *)
(* extra keys in the capture object, its viewport, its compiler, a node or *)
(* a text signal, and that validates with zero issues without them, gets   *)
(* zero issues from validateCapture and is returned by parseCapture.       *)
(***************************************************************************)
C11_UnknownKeysTolerated ==
  (/\ pc = "done"
   /\ capture # Undefined
   /\ WithoutExtras(capture) # capture
   /\ SchemaValid(WithoutExtras(capture))
   /\ ~OverLimits(WithoutExtras(capture), limits)) =>
    /\ issues = <<>>
    /\ mode = "validate" => result = [kind |-> "issues", issues |-> <<>>]
    /\ mode = "parse" => result.kind = "ok" /\ result.value = capture

C11_Witness ==
  /\ mode = "parse"
  /\ pc = "done"
  /\ capture = ExtraKeyCapture("all", E("meta", JObj(<<E("children", JStr("none")),
                                                       E("role", JNum(0))>>)))
  /\ result.kind = "ok"
  /\ Get(Get(KidsOf(Get(result.value, "root"))[1], "text"), "meta").t = "object"

\* The tree b is the tree a with the children of some nodes in another order.
RECURSIVE SameUpToOrder(_, _)
SameUpToOrder(a, b) ==
  /\ [a EXCEPT !.children = <<>>] = [b EXCEPT !.children = <<>>]
  /\ Len(a.children) = Len(b.children)
  /\ \E p \in Perms(b.children) :
       \A i \in 1..Len(a.children) : SameUpToOrder(a.children[i], p[i])

\* The captures differ in the order of siblings at most.
Reordered(a, b) ==
  [a EXCEPT !.root = <<>>] = [b EXCEPT !.root = <<>>] /\ SameUpToOrder(a.root, b.root)

\* In every children list of the tree the y-values differ pairwise by more than
\* BBOX_QUANT_STEP, or are all the same with pairwise distinct x-values.
RECURSIVE Separated(_)
Separated(node) ==
  LET ks == node.children
      Pairs == {q \in (1..Len(ks)) \X (1..Len(ks)) : q[1] < q[2]}
  IN /\ \/ \A q \in Pairs :
              Abs(FSub(ks[q[1]].bbox[2], ks[q[2]].bbox[2])) > Lit(BboxQuantMilli, 1000)
        \/ \A q \in Pairs : /\ ks[q[1]].bbox[2] = ks[q[2]].bbox[2]
                             /\ ks[q[1]].bbox[1] # ks[q[2]].bbox[1]
     /\ \A i \in 1..Len(ks) : Separated(ks[i])

(***************************************************************************)
(* C12.  hashNodeDeep canonicalizes the order of siblings: two captures    *)
(* that differ only in the order of the children of some nodes have the    *)
(* same deep hash, the same fingerprintCapture and the same                *)
(* fingerprintLayout.                                                      *)
(***************************************************************************)
C12_OrderCanonical ==
  (mode = "hash" /\ pc = "done" /\ Reordered(captureA, captureB)) =>
    /\ result.deepA = result.deepB
    /\ result.captureA = result.captureB
    /\ result.layoutA = result.layoutB

(***************************************************************************)
(* C13.  When the children of every node have y-values that differ         *)
(* pairwise by more than BBOX_QUANT_STEP, or share one y and have pairwise *)
(* distinct x-values, every order of the children gives the same           *)
(* fingerprintCapture.                                                     *)
(***************************************************************************)
C13_SeparatedSiblings ==
  (/\ mode = "hash"
   /\ pc = "done"
   /\ Reordered(captureA, captureB)
   /\ Separated(captureA.root)) =>
    result.captureA = result.captureB

C13_Witness ==
  /\ mode = "hash"
  /\ pc = "done"
  /\ Reordered(captureA, captureB)
  /\ Separated(captureA.root)
  /\ Len(captureA.root.children) = 3
  /\ captureA.root.children[1] = captureB.root.children[3]
  /\ captureA.root.children[1].bbox[2] = captureA.root.children[2].bbox[2]
  /\ result.captureA = result.captureB

(***************************************************************************)
(* C14.  Both fingerprints are functions of the root tree and of           *)
(* viewport.aspect rounded to two decimals: two captures with the same     *)
(* root and the same rounded aspect, whatever their timestamp_ms, url and  *)
(* compiler fields, have equal fingerprintCapture and equal                *)
(* fingerprintLayout.                                                      *)
(***************************************************************************)
C14_MetadataStable ==
  (/\ mode = "hash"
   /\ pc = "done"
   /\ captureA.root = captureB.root
   /\ ToFixed(captureA.viewport.aspect, 2) = ToFixed(captureB.viewport.aspect, 2)) =>
    /\ result.captureA = result.captureB
    /\ result.layoutA = result.layoutB

C14_Witness ==
  /\ mode = "hash"
  /\ pc = "done"
  /\ captureA.root = captureB.root
  /\ captureA.viewport = captureB.viewport
  /\ captureA.url # captureB.url
  /\ captureA.timestamp_ms # captureB.timestamp_ms
  /\ \A f \in {"name", "version", "options_hash"} : captureA.compiler[f] # captureB.compiler[f]
  /\ Len(captureA.root.children) > 0
  /\ result.captureA = result.captureB
  /\ result.layoutA = result.layoutB

\* The tree without its text hashes and name hashes.
RECURSIVE WithoutHashes(_)
WithoutHashes(node) ==
  [node EXCEPT !.name_hash = "",
               !.text = IF node.text = <<>> THEN <<>>
                        ELSE <<[node.text[1] EXCEPT !.hash = <<>>]>>,
               !.children = [i \in 1..Len(node.children) |-> WithoutHashes(node.children[i])]]

(***************************************************************************)
(* C15.  Two captures that differ only in the text.hash and name_hash      *)
(* values of their nodes have the same fingerprintLayout.                  *)
(***************************************************************************)
C15_LayoutIgnoresText ==
  (/\ mode = "hash"
   /\ pc = "done"
   /\ [captureA EXCEPT !.root = <<>>] = [captureB EXCEPT !.root = <<>>]
   /\ WithoutHashes(captureA.root) = WithoutHashes(captureB.root)) =>
    result.layoutA = result.layoutB

C15_Witness ==
  /\ mode = "hash"
  /\ pc = "done"
  /\ WithoutHashes(captureA.root) = WithoutHashes(captureB.root)
  /\ Len(captureA.root.children) = 2
  /\ captureA.root.children[1].name_hash # captureB.root.children[1].name_hash
  /\ TextHash(captureA.root.children[2]) # TextHash(captureB.root.children[2])
  /\ result.layoutA = result.layoutB
  /\ result.captureA # result.captureB

\* The node b is the node a with its role changed, one bbox component shifted
\* by more than BBOX_QUANT_STEP, its interactive flag flipped, or its text
\* hash altered.
NodeEdited(a, b) ==
  \/ a.role # b.role /\ b = [a EXCEPT !.role = b.role]
  \/ \E i \in 1..4 : /\ Abs(FSub(b.bbox[i], a.bbox[i])) > Lit(BboxQuantMilli, 1000)
                      /\ b = [a EXCEPT !.bbox[i] = b.bbox[i]]
  \/ a.interactive # b.interactive /\ b = [a EXCEPT !.interactive = b.interactive]
  \/ /\ a.text # <<>>
     /\ b.text # <<>>
     /\ a.text[1].hash # <<>>
     /\ b.text[1].hash # <<>>
     /\ a.text[1].hash # b.text[1].hash
     /\ b = [a EXCEPT !.text[1].hash = b.text[1].hash]

\* The tree b is the tree a with one node edited.
RECURSIVE EditedOnce(_, _)
EditedOnce(a, b) ==
  \/ NodeEdited(a, b)
  \/ /\ [a EXCEPT !.children = <<>>] = [b EXCEPT !.children = <<>>]
     /\ Len(a.children) = Len(b.children)
     /\ \E i \in 1..Len(a.children) :
          /\ EditedOnce(a.children[i], b.children[i])
          /\ \A j \in 1..Len(a.children) : j # i => a.children[j] = b.children[j]

(***************************************************************************)
(* C16.  Each single edit of one node changes fingerprintCapture: another  *)
(* role, one bbox component shifted by more than BBOX_QUANT_STEP, the      *)
(* interactive flag flipped, or the text.hash altered to a different       *)
(* string.                                                                 *)
(***************************************************************************)
C16_EditsChangeFingerprint ==
  (/\ mode = "hash"
   /\ pc = "done"
   /\ [captureA EXCEPT !.root = <<>>] = [captureB EXCEPT !.root = <<>>]
   /\ EditedOnce(captureA.root, captureB.root)) =>
    result.captureA # result.captureB

\* The points and the weight of the table for the pair a, b: role 3 of 3, bbox
\* 2 s of 2, interactivity 1 of 1, semantic 2 of 2 when both have the same, 0
\* of 2 when one has one or they differ, 0 of 0 when neither has one, text
\* hash 1 of 1.
TablePoints(a, b) ==
  LET role == IF a.role = b.role THEN Whole(3) ELSE 0
      box == FAdd(role, FMul(bboxSimilarity(a.bbox, b.bbox), Whole(2)))
      inter == IF a.interactive = b.interactive THEN FAdd(box, Whole(1)) ELSE box
      sem == IF a.semantic # "" /\ a.semantic = b.semantic THEN FAdd(inter, Whole(2)) ELSE inter
  IN IF Truthy(TextHash(a)) /\ TextHash(a) = TextHash(b) THEN FAdd(sem, Whole(1)) ELSE sem

TableWeight(a, b) ==
  Whole(3 + 2 + 1 + (IF a.semantic # "" \/ b.semantic # "" THEN 2 ELSE 0) + 1)

(***************************************************************************)
(* C17.  nodeSimilarity(a, b) is the points of the table over its weight,  *)
(* and lies in [0, 1].                                                     *)
(***************************************************************************)
C17_SimilarityTable ==
  (mode = "hash" /\ pc = "done") =>
    /\ result.similarity = FDiv(TablePoints(captureA.root, captureB.root),
                                TableWeight(captureA.root, captureB.root))
    /\ 0 <= result.similarity
    /\ result.similarity <= One

\* The fold of the claim on a number of 32 bits held as four bytes, the lowest
\* first: h * 32 + h modulo 2^32, then XOR with the code unit.
TimesThirtyThree(bytes) ==
  LET b1 == bytes[1] * 33
      b2 == bytes[2] * 33 + (b1 \div 256)
      b3 == bytes[3] * 33 + (b2 \div 256)
      b4 == bytes[4] * 33 + (b3 \div 256)
  IN <<b1 % 256, b2 % 256, b3 % 256, b4 % 256>>

FoldStep(bytes, code) ==
  LET m == TimesThirtyThree(bytes)
  IN <<Xor(m[1], code % 256, 8), Xor(m[2], code \div 256, 8), m[3], m[4]>>

RECURSIVE FoldBytes(_, _, _, _)
FoldBytes(bytes, text, i, j) ==
  IF i > j THEN bytes
  ELSE IF i = j THEN FoldStep(bytes, CharCode[Ch(text, i)])
  ELSE Then(FoldBytes(bytes, text, i, (i + j) \div 2),
            LAMBDA half : FoldBytes(half, text, ((i + j) \div 2) + 1, j))

\* 5381 = 21 * 256 + 5
FoldDigest(text) ==
  LET b == FoldBytes(<<5, 21, 0, 0>>, text, 1, Len(text))
      Two(n) == Ch(HexDigits, (n \div 16) + 1) \o Ch(HexDigits, (n % 16) + 1)
  IN Two(b[4]) \o Two(b[3]) \o Two(b[2]) \o Two(b[1])

(***************************************************************************)
(* C18.  The synchronous digest is the fold h0 = 5381,                     *)
(* h <- ((h * 32 + h) XOR c) mod 2^32 over the code units of the text,     *)
(* written as exactly 8 lowercase hex characters, zero-padded, for every   *)
(* text, the empty one included; the digest of "hello" is 0a9cede7.        *)
(***************************************************************************)
C18_Djb2Digest ==
  (mode = "hashSync" /\ pc = "done") =>
    /\ result.hex = FoldDigest(json)
    /\ Len(result.hex) = 8
    /\ \A i \in 1..8 : \E d \in 1..16 : Ch(result.hex, i) = Ch(HexDigits, d)
    /\ json = "hello" => result.hex = "0a9cede7"
    /\ json = "" => result.hex = "00001505"

C18_Witness ==
  /\ mode = "hashSync"
  /\ pc = "done"
  /\ json = "hello"
  /\ result.hex = "0a9cede7"

\* The types of change the classification rules give a pair of nodes.
Magnitude(x) == IF x < 0 THEN 0 - x ELSE x

PairTypes(a, b, opts) ==
  LET d(k) == Magnitude(FSub(b.bbox[k], a.bbox[k]))
  IN {t \in {"moved"} : d(1) > opts.moveThreshold \/ d(2) > opts.moveThreshold}
     \cup {t \in {"resized"} : d(3) > opts.resizeThreshold \/ d(4) > opts.resizeThreshold}
     \cup {t \in {"role_changed"} : a.role # b.role}
     \cup {t \in {"text_changed"} : opts.includeText /\ TextHash(a) # TextHash(b)}
     \cup {t \in {"interactive_changed"} : a.interactive # b.interactive}
     \cup {t \in {"children_changed"} : Len(a.children) # Len(b.children)}

PairChangeTypes == ChangeTypes \ {"added", "removed"}

\* The number of changes of a type the result holds for a pair of nodes.
Emitted(t, a, b) ==
  Cardinality({c \in 1..Len(result.changes) :
                 /\ result.changes[c].type = t
                 /\ result.changes[c].nodeA = <<a>>
                 /\ result.changes[c].nodeB = <<b>>})

\* The number of matched pairs made of these two nodes.
PairsOf(a, b) ==
  Cardinality({m \in 1..Len(matches) : matches[m].nodeA.node = a /\ matches[m].nodeB.node = b})

(***************************************************************************)
(* C19.  For each matched pair (a, b) diff emits one change of each of the *)
(* types the rules give and none of another type: moved iff |dx| or |dy|   *)
(* exceeds moveThreshold, resized iff |dw| or |dh| exceeds                 *)
(* resizeThreshold, role_changed iff the roles differ, text_changed iff    *)
(* includeText and the text hashes differ, interactive_changed iff the     *)
(* flags differ, children_changed iff the child counts differ; every such  *)
(* change belongs to a matched pair; with includeText = false no           *)
(* text_changed change appears.                                            *)
(***************************************************************************)
C19_PairChanges ==
  (mode = "diff" /\ pc = "done") =>
    /\ \A m \in 1..Len(matches) :
         LET a == matches[m].nodeA.node
             b == matches[m].nodeB.node
         IN \A t \in PairChangeTypes :
              Emitted(t, a, b) = IF t \in PairTypes(a, b, options) THEN PairsOf(a, b) ELSE 0
    /\ \A c \in 1..Len(result.changes) :
         result.changes[c].type \in PairChangeTypes =>
           \E m \in 1..Len(matches) :
             /\ result.changes[c].nodeA = <<matches[m].nodeA.node>>
             /\ result.changes[c].nodeB = <<matches[m].nodeB.node>>
    /\ ~options.includeText =>
         \A c \in 1..Len(result.changes) : result.changes[c].type # "text_changed"

C19_Witness ==
  /\ mode = "diff"
  /\ pc = "done"
  /\ \E m \in 1..Len(matches) :
       LET a == matches[m].nodeA.node
           b == matches[m].nodeB.node
       IN /\ Cardinality(PairTypes(a, b, options)) >= 2
          /\ PairsOf(a, b) = 1
          /\ \A t \in PairTypes(a, b, options) : Emitted(t, a, b) = 1

\* The pairs of indices a run of findMatches matched.
PairsIn(ms) == {<<ms[m].i, ms[m].j>> : m \in 1..Len(ms)}

\* The number of added and removed changes among some changes.
Unmatched(chs) == Cardinality({c \in 1..Len(chs) : chs[c].type \in {"added", "removed"}})

AtThreshold(t) == [options EXCEPT !.matchThreshold = t]

(***************************************************************************)
(* C20.  Raising matchThreshold never produces more matches: for the same  *)
(* two captures and thresholds t1 >= t2, the pairs matched under t1 are    *)
(* among those matched under t2, and the result under t1 holds at least as *)
(* many added and removed changes as the one under t2.                     *)
(***************************************************************************)
C20_ThresholdMonotone ==
  (mode = "diff" /\ pc = "done") =>
    \A t \in MatchThresholds :
      LET other == findMatches(flatA, flatB, AtThreshold(t)).matches
          otherChanges == diffChanges(captureA, captureB, AtThreshold(t))
      IN /\ t >= options.matchThreshold =>
              /\ PairsIn(other) \subseteq PairsIn(matches)
              /\ Unmatched(otherChanges) >= Unmatched(result.changes)
         /\ t <= options.matchThreshold =>
              /\ PairsIn(matches) \subseteq PairsIn(other)
              /\ Unmatched(otherChanges) <= Unmatched(result.changes)

\* Some pair is matched under the default threshold and not under 0.9, and
\* some pair is matched under 0.1 only, after a candidate was passed over.
C20_Witness ==
  /\ mode = "diff"
  /\ pc = "done"
  /\ options.matchThreshold = Lit(1, 2)
  /\ matches # <<>>
  /\ PairsIn(findMatches(flatA, flatB, AtThreshold(Lit(9, 10))).matches) # PairsIn(matches)
  /\ PairsIn(findMatches(flatA, flatB, AtThreshold(Lit(1, 10))).matches) # PairsIn(matches)
  /\ Unmatched(diffChanges(captureA, captureB, AtThreshold(Lit(9, 10)))) > Unmatched(result.changes)
  /\ Len(candidates) > Len(matches)

(***************************************************************************)
(* C21.  For every node without children (the field absent or an empty     *)
(* list) and every HashOptions, hashNodeDeep(node, options) equals         *)
(* hashNodeShallow(node, options).                                         *)
(***************************************************************************)
C21_LeafIdentity ==
  (mode = "hashNode" /\ pc = "done" /\ captureA.root.children = <<>>) =>
    result.deep = result.shallow

C21_Witness ==
  /\ mode = "hashNode"
  /\ pc = "done"
  /\ captureA.root.children = <<>>
  /\ captureA.root.z # <<>>
  /\ options.includeZ
  /\ ~options.includeText
  /\ result.deep = result.shallow

\* The White_Space property of Unicode and the category Lu, below U+3001.
UnicodeWhiteSpace ==
  (9..13) \cup {32, 133, 160, 5760} \cup (8192..8202) \cup {8232, 8233, 8239, 8287, 12288}

UpperCase == (65..90) \cup ((192..222) \ {215}) \cup {304, 931, 978}

Idempotent == result.twice = result.once

Clean(text) ==
  /\ \A i \in 1..Len(text) : text[i] \notin INVISIBLE_CHARS
  /\ \A i \in 1..Len(text) : text[i] \in UnicodeWhiteSpace => text[i] = 32
  /\ text # <<>> => text[1] # 32 /\ text[Len(text)] # 32
  /\ \A i \in 1..(Len(text) - 1) : ~(text[i] = 32 /\ text[i + 1] = 32)
  /\ \A i \in 1..Len(text) : text[i] \notin UpperCase

(***************************************************************************)
(* C22.  normalizeText is idempotent, and its result contains no invisible *)
(* character, no leading or trailing whitespace, no run of whitespace      *)
(* other than one ASCII space and no upper-case character.                 *)
(***************************************************************************)
C22_NormalizeIdempotentClean ==
  (mode = "normalizeText" /\ pc = "done") => Idempotent /\ Clean(result.once)

\* The nodes of the changes of one type, in the order of the changes.
NodesOfType(chs, t) ==
  LET of == SelectSeq(chs, LAMBDA ch : ch.type = t)
  IN [k \in 1..Len(of) |-> IF t = "removed" THEN of[k].nodeA ELSE of[k].nodeB]

\* The nodes of a flattened tree that no match holds, in preorder.
Leftover(flat, matchedAt) ==
  LET left == SelectSeq([i \in 1..Len(flat) |-> i], LAMBDA i : (i - 1) \notin matchedAt)
  IN [k \in 1..Len(left) |-> <<flat[left[k]].node>>]

(***************************************************************************)
(* C23.  In every diff result the matching is one-to-one: each flattened   *)
(* node of A and each flattened node of B is in at most one matched pair;  *)
(* the removed changes are the unmatched A-nodes, one change each, the     *)
(* added changes the unmatched B-nodes, one change each; and               *)
(* nodeCountA - counts.removed = nodeCountB - counts.added = the number of *)
(* matched pairs.                                                          *)
(***************************************************************************)
C23_OneToOne ==
  (mode = "diff" /\ pc = "done") =>
    /\ \A m, n \in 1..Len(matches) :
         (matches[m].i = matches[n].i \/ matches[m].j = matches[n].j) => m = n
    /\ \A m \in 1..Len(matches) :
         /\ matches[m].i \in 0..(Len(flatA) - 1)
         /\ matches[m].j \in 0..(Len(flatB) - 1)
    /\ NodesOfType(result.changes, "removed")
         = Leftover(flatA, {matches[m].i : m \in 1..Len(matches)})
    /\ NodesOfType(result.changes, "added")
         = Leftover(flatB, {matches[m].j : m \in 1..Len(matches)})
    /\ result.summary.nodeCountA - result.summary.counts["removed"] = Len(matches)
    /\ result.summary.nodeCountB - result.summary.counts["added"] = Len(matches)

\* Two nodes of A were candidates for one node of B; one is matched, the
\* other removed, and a node of B is added.
C23_Witness ==
  /\ mode = "diff"
  /\ pc = "done"
  /\ \E c, d \in 1..Len(candidates) :
       candidates[c].j = candidates[d].j /\ candidates[c].i # candidates[d].i
  /\ matches # <<>>
  /\ result.summary.counts["removed"] > 0
  /\ result.summary.counts["added"] > 0
  /\ result.summary.nodeCountA - result.summary.counts["removed"] = Len(matches)

\* Where a pair of indices stands among the sorted candidates (0 if it is not
\* a candidate).
TurnOf(i, j) ==
  LET at == {k \in 1..Len(candidates) : candidates[k].i = i /\ candidates[k].j = j}
  IN IF at = {} THEN 0 ELSE CHOOSE k \in at : TRUE

MatchTurns == {TurnOf(matches[m].i, matches[m].j) : m \in 1..Len(matches)}

\* The order of the walk: descending similarity, ties by A index, then B index.
WalkOrder ==
  \A k, l \in 1..Len(candidates) :
    k < l =>
      \/ candidates[k].sim > candidates[l].sim
      \/ /\ candidates[k].sim = candidates[l].sim
         /\ \/ candidates[k].i < candidates[l].i
            \/ candidates[k].i = candidates[l].i /\ candidates[k].j < candidates[l].j

(***************************************************************************)
(* C24.  Greedy matching walks the candidates in descending similarity,    *)
(* ties in generation order (A index, then B index), and accepts a pair    *)
(* exactly when at its turn neither node is matched: every match is a      *)
(* candidate, and a candidate is left out of the final matching exactly    *)
(* when a match that precedes it in that order (so of similarity >= its    *)
(* own) holds one of its two nodes.                                        *)
(***************************************************************************)
C24_GreedyOrder ==
  (mode = "diff" /\ pc = "done") =>
    /\ WalkOrder
    /\ 0 \notin MatchTurns
    /\ \A k \in 1..Len(candidates) :
         k \notin MatchTurns <=>
           \E p \in MatchTurns :
             /\ p < k
             /\ candidates[p].sim >= candidates[k].sim
             /\ candidates[p].i = candidates[k].i \/ candidates[p].j = candidates[k].j

\* The sum of the similarities of a set of candidates that is a matching.
RECURSIVE TotalSim(_)
TotalSim(turns) ==
  IF turns = {} THEN 0
  ELSE LET k == CHOOSE t \in turns : TRUE
       IN candidates[k].sim + TotalSim(turns \ {k})

IsMatching(turns) ==
  \A k, l \in turns :
    k # l => candidates[k].i # candidates[l].i /\ candidates[k].j # candidates[l].j

\* The greedy matching of the two pages of buttons on a line is not an
\* assignment of maximum weight, and two candidates tie.
C24_Witness ==
  /\ mode = "diff"
  /\ pc = "done"
  /\ captureA = LineCaptureA
  /\ captureB = LineCaptureB
  /\ \E turns \in SUBSET (1..Len(candidates)) :
       IsMatching(turns) /\ TotalSim(turns) > TotalSim(MatchTurns)
  /\ \E k \in 1..(Len(candidates) - 1) : candidates[k].sim = candidates[k + 1].sim
  /\ \E k \in 1..Len(candidates) : k \notin MatchTurns

\* The intersection over union of the boxes of a matched pair is below 0.3.
ApartIn(m) == bboxSimilarity(m.nodeA.node.bbox, m.nodeB.node.bbox) < Lit(3, 10)

(***************************************************************************)
(* C25.  Every matched pair has nodeSimilarity >= matchThreshold, and      *)
(* every matched pair whose roles differ, hence every role_changed change, *)
(* has a bbox IoU >= 0.3.                                                  *)
(***************************************************************************)
C25_MatchAdmission ==
  (mode = "diff" /\ pc = "done") =>
    /\ \A m \in 1..Len(matches) :
         /\ nodeSimilarity(matches[m].nodeA.node, matches[m].nodeB.node) >= options.matchThreshold
         /\ matches[m].similarity = nodeSimilarity(matches[m].nodeA.node, matches[m].nodeB.node)
         /\ matches[m].nodeA.node.role # matches[m].nodeB.node.role => ~ApartIn(matches[m])
    /\ \A c \in 1..Len(result.changes) :
         result.changes[c].type = "role_changed" =>
           ~(bboxSimilarity(result.changes[c].nodeA[1].bbox, result.changes[c].nodeB[1].bbox)
               < Lit(3, 10))

\* Under the threshold 0.1 a pair of the same role is matched although its
\* boxes are apart, a pair of different roles is matched on overlapping boxes,
\* and a pair of different roles with boxes apart and a similarity over the
\* threshold is no candidate.
C25_Witness ==
  /\ mode = "diff"
  /\ pc = "done"
  /\ options.matchThreshold = Lit(1, 10)
  /\ \E m \in 1..Len(matches) :
       matches[m].nodeA.node.role = matches[m].nodeB.node.role /\ ApartIn(matches[m])
  /\ \E m \in 1..Len(matches) :
       matches[m].nodeA.node.role # matches[m].nodeB.node.role /\ ~ApartIn(matches[m])
  /\ \E i \in 1..Len(flatA), j \in 1..Len(flatB) :
       /\ flatA[i].node.role # flatB[j].node.role
       /\ bboxSimilarity(flatA[i].node.bbox, flatB[j].node.bbox) < Lit(3, 10)
       /\ nodeSimilarity(flatA[i].node, flatB[j].node) >= options.matchThreshold
       /\ TurnOf(i - 1, j - 1) = 0

\* The area a change is ranked by: that of nodeA's box, of nodeB's when there
\* is no nodeA.
RankArea(ch) ==
  LET box == IF ch.nodeA # <<>> THEN ch.nodeA[1].bbox ELSE ch.nodeB[1].bbox
  IN FMul(box[3], box[4])

\* The place of the k-th change in the stable sort by descending area.
PlaceOf(chs, k) ==
  1 + Cardinality({l \in 1..Len(chs) :
                     \/ RankArea(chs[l]) > RankArea(chs[k])
                     \/ RankArea(chs[l]) = RankArea(chs[k]) /\ l < k})

\* The number of changes of the matched pairs before the m-th.
RECURSIVE ChangesBefore(_)
ChangesBefore(m) ==
  IF m <= 1 THEN 0
  ELSE ChangesBefore(m - 1)
       + Cardinality(PairTypes(matches[m - 1].nodeA.node, matches[m - 1].nodeB.node, options))

(***************************************************************************)
(* C26.  topChanges is the first min(topChangesLimit, |changes|) entries   *)
(* of the changes stably sorted by descending area of nodeA's bbox         *)
(* (nodeB's when nodeA is absent); changes itself is in detection order:   *)
(* the changes of the matched pairs in matching order, then the added      *)
(* changes in B preorder, then the removed changes in A preorder.          *)
(***************************************************************************)
C26_TopChanges ==
  (mode = "diff" /\ pc = "done") =>
    LET chs == result.changes
        pairs == ChangesBefore(Len(matches) + 1)
        added == Leftover(flatB, {matches[m].j : m \in 1..Len(matches)})
        removed == Leftover(flatA, {matches[m].i : m \in 1..Len(matches)})
    IN /\ Len(result.topChanges) = Min2(options.topChangesLimit, Len(chs))
       /\ \A k \in 1..Len(chs) :
            PlaceOf(chs, k) <= Len(result.topChanges) =>
              result.topChanges[PlaceOf(chs, k)] = chs[k]
       /\ Len(chs) = pairs + Len(added) + Len(removed)
       /\ \A m \in 1..Len(matches) :
            \A k \in (ChangesBefore(m) + 1)..ChangesBefore(m + 1) :
              /\ chs[k].type \in PairChangeTypes
              /\ chs[k].nodeA = <<matches[m].nodeA.node>>
              /\ chs[k].nodeB = <<matches[m].nodeB.node>>
       /\ \A k \in 1..Len(added) :
            chs[pairs + k].type = "added" /\ chs[pairs + k].nodeB = added[k]
       /\ \A k \in 1..Len(removed) :
            /\ chs[pairs + Len(added) + k].type = "removed"
            /\ chs[pairs + Len(added) + k].nodeA = removed[k]
       /\ changes = chs

\* The limit cuts the list, the largest change is not the first detected, and
\* two changes have the same area.
C26_Witness ==
  /\ mode = "diff"
  /\ pc = "done"
  /\ options.topChangesLimit = 1
  /\ Len(result.changes) > 2
  /\ Len(result.topChanges) = 1
  /\ result.topChanges[1] # result.changes[1]
  /\ \E k, l \in 1..Len(result.changes) :
       k # l /\ RankArea(result.changes[k]) = RankArea(result.changes[l])
  /\ \E k \in 1..Len(result.changes) : result.changes[k].type = "added"
  /\ \E k \in 1..Len(result.changes) : result.changes[k].type = "removed"

(***************************************************************************)
(* C29.  Under the default options, a diff whose summary is identical (no  *)
(* change detected) has fingerprintsMatch: the diff never reports two      *)
(* captures as identical while their full fingerprints differ.             *)
(***************************************************************************)
C29_IdenticalImpliesFingerprints ==
  (mode = "diff" /\ pc = "done" /\ options = DEFAULT_OPTIONS /\ result.summary.identical) =>
    result.summary.fingerprintsMatch

\* The paths of a tree in preorder.
RECURSIVE Preorder(_)
Preorder(node) ==
  LET RECURSIVE Kids(_)
      Kids(i) == IF i > Len(node.children) THEN <<>>
                 ELSE [k \in 1..Len(Preorder(node.children[i])) |->
                         <<i>> \o Preorder(node.children[i])[k]]
                      \o Kids(i + 1)
  IN <<<<>>>> \o Kids(1)

\* The paths under the node passed to assignNodeIds, in preorder.
WalkOf(root, at) ==
  [k \in 1..Len(Preorder(NodeAt(root, at))) |-> at \o Preorder(NodeAt(root, at))[k]]

\* The fields of a node other than its children, and those other than its id.
Own(node) == [node EXCEPT !.children = <<>>]
OwnButId(node) == [node EXCEPT !.children = <<>>, !.id = ""]

IsPrefix(p, q) == Len(p) <= Len(q) /\ SubSeq(q, 1, Len(p)) = p

Range(seq) == {seq[k] : k \in 1..Len(seq)}

(***************************************************************************)
(* C27.  assignNodeIds(root, parentPath) visits the tree in preorder and   *)
(* writes only id fields: the id of each node is generateNodeId of the     *)
(* node and the id just written to its parent (parentPath for the node     *)
(* passed), so the id of a child starts with the id of its parent and      *)
(* "/"; no other field of a node of the tree and nothing outside the tree  *)
(* changes, at any moment of the walk.                                     *)
(***************************************************************************)
C27_AssignNodeIdsFrame ==
  (mode = "assignNodeIds" /\ pc = "assign") =>
    LET before == captureA.root
        walk == WalkOf(before, result.first.path)
    IN /\ visited = SubSeq(walk, 1, Len(visited))
       /\ PathsOf(tree) = PathsOf(before)
       /\ \A p \in PathsOf(before) :
            IF p \in Range(visited)
              THEN /\ OwnButId(NodeAt(tree, p)) = OwnButId(NodeAt(before, p))
                   /\ NodeAt(tree, p).id
                        = generateNodeId(NodeAt(before, p),
                            IF p = result.first.path THEN result.first.parentPath
                            ELSE NodeAt(tree, SubSeq(p, 1, Len(p) - 1)).id)
                   /\ p # result.first.path =>
                        IsPrefix(NodeAt(tree, SubSeq(p, 1, Len(p) - 1)).id \o "/",
                                 NodeAt(tree, p).id)
              ELSE Own(NodeAt(tree, p)) = Own(NodeAt(before, p))
       /\ pending = <<>> => visited = walk

\* The walk of a subtree with a child and a grandchild is over; a node outside
\* it keeps its old id.
C27_Witness ==
  /\ mode = "assignNodeIds"
  /\ pc = "assign"
  /\ pending = <<>>
  /\ Len(visited) >= 3
  /\ \E p \in Range(visited) : Len(p) >= 2 /\ Len(NodeAt(tree, p).id) > Len("/page")
  /\ \E p \in PathsOf(tree) : p \notin Range(visited) /\ NodeAt(tree, p).id = NodeAt(captureA.root, p).id
  /\ tree # captureA.root

(***************************************************************************)
(* C30.  assignNodeIds is idempotent and fingerprint-neutral: a second     *)
(* call on the same node with the same parentPath leaves every id as the   *)
(* first call wrote it, and hashNodeShallow and hashNodeDeep of every node *)
(* and fingerprintCapture and fingerprintLayout are the same before and    *)
(* after assignNodeIds.                                                    *)
(***************************************************************************)
C30_IdsIdempotentNeutral ==
  (mode = "assignNodeIds" /\ pc = "done") =>
    /\ tree = result.once
    /\ visited = result.walk
    /\ result.after = result.before
    /\ HashesOf(tree) = result.before

\* Both calls are over on a tree that had other ids before, which the first
\* call replaced.
C30_Witness ==
  /\ mode = "assignNodeIds"
  /\ pc = "done"
  /\ Len(visited) >= 3
  /\ captureA.root.id # ""
  /\ \A p \in Range(visited) : NodeAt(tree, p).id # NodeAt(captureA.root, p).id
  /\ tree = result.once
  /\ result.after.capture = result.before.capture

\* A cell of the grid changes hands to a node whose role has a lower priority.
LowerRoleTakes(y, x) == writer[y][x] >= 0 /\ writer'[y][x] < writer[y][x]

StoredPriorityGrows ==
  \A y \in DOMAIN grid : \A x \in DOMAIN grid[y] : grid'[y][x].priority >= grid[y][x].priority

(***************************************************************************)
(* C28.  In renderAscii higher-priority roles overwrite lower ones: once a *)
(* cell was written by a node whose role has the higher ROLE_PRIORITY, no  *)
(* character, box edge or label, of a node with a lower-priority role      *)
(* replaces it, whatever the tree order; and the stored priority of a cell *)
(* never decreases over the writes.                                        *)
(***************************************************************************)
C28_HigherRoleStays ==
  [][mode = "renderAscii" =>
       /\ StoredPriorityGrows
       /\ \A y \in DOMAIN writer : \A x \in DOMAIN writer[y] : ~LowerRoleTakes(y, x)]_vars

====
